---- MODULE Spec2Model ----
(***************************************************************************)
(* Blunder-Buss request-to-engine dispatch pipeline.                        *)
(*                                                                         *)
(*   Spec        the queue protocol between the Front-End (go/api) and the  *)
(*               Processors (go/worker): LPUSH / BLPOP on stockfish:jobs,   *)
(*               RPUSH / LRANGE / LREM on stockfish:results.                *)
(*   SpecRetry   retry.WithRetry run on every configuration of a bounded    *)
(*               family and every sequence of attempt outcomes.             *)
(*   SpecWorker  one Processor: job tasks, the engine circuit breaker       *)
(*               (sony/gobreaker as configured by the repository), the      *)
(*               retry loops, the health probe and the clock.               *)
(***************************************************************************)
EXTENDS Integers, Sequences, FiniteSets, TLC

VARIABLES
    \* ---- queue broker (shared by every specification)
    jobs,        \* stockfish:jobs, index 1 is the head (left end) of the list
    results,     \* stockfish:results, index 1 is the head (left end)
    \* ---- Front-End
    req,         \* one record per /move handler invocation
    nano,        \* time.Now().UnixNano() as read by the Front-End
    \* ---- Processor main loop, queue view
    tasks,       \* job tasks spawned by processJobs and not yet ended
    \* ---- history of the queue (not program state)
    qlog,        \* push and pop events on stockfish:jobs, in order
    removed,     \* <<request, record>> for every record an LREM deleted
    \* ---- retry.WithRetry, stand-alone
    rcfg,        \* the retry.Config of the call
    rs,          \* the state of the retry loop
    rctx,        \* the caller's context: "live" or "done"
    rdelay,      \* the delay the loop computed last, in milliseconds
    \* ---- Processor, engine side
    wtask,       \* one record per job task slot
    cb,          \* the engine circuit breaker (gobreaker.CircuitBreaker)
    now,         \* time.Now() in the Processor, in seconds
    dialLog,     \* who dialled the engine while the breaker was Open (history)
    whist,       \* history of the breaker: failure streak, time of the last trip
    metric,      \* the Processor's Prometheus collectors (metrics.MetricsCollector)
    \* ---- Processor, main goroutine and shutdown
    sd           \* shutdownChan, doneChan, activeJobsCount, the place of processJobs

vars == <<jobs, results, req, nano, tasks, qlog, removed, rcfg, rs, rctx, rdelay,
          wtask, cb, now, dialLog, whist, metric, sd>>

queueVars  == <<jobs, results, req, nano, tasks, qlog, removed>>
retryVars  == <<rcfg, rs, rctx, rdelay>>
workerVars == <<wtask, cb, now, dialLog, whist, metric, sd>>

(***************************************************************************)
(* Bounds of the model.                                                     *)
(***************************************************************************)
MaxNano == 1            \* the Front-End clock takes the values 0..MaxNano
DrainTicks == 2         \* ticks of the drain loop before its 30 s deadline
Reqs    == {"r1", "r2"}              \* /move handler invocations
Procs   == {"p1", "p2"}            \* Processor instances

Methods     == {"POST", "OPTIONS", "GET"}
EloInputs   == {0, 2000}
MoveInputs  == {0, 500}
FenLengths  == {0, 10, 25}         \* len(req.FEN)

(***************************************************************************)
(* Redis list operations, as the broker executes them (each is atomic).     *)
(***************************************************************************)
\* LPUSH key v: insert at the head of the list.
LPush(list, v) == <<v>> \o list

\* RPUSH key v: insert at the tail of the list.
RPush(list, v) == Append(list, v)

\* (B)LPOP key: the element at the head of the list, and the list without it.
LPopValue(list) == Head(list)
LPopRest_Peek(list) == list            \* a pop that leaves the element in the list
LPopRest(list)  == Tail(list)

\* LRANGE key 0 -1: the whole list, head first.
LRange(list) == list

\* The text of a result record: what Redis compares.  The field rid is the
\* model's tag of the request the record was computed for and is not part of
\* the text.
Text(rec) == [id |-> rec.id, err |-> rec.err]

FirstIndex(list, txt) ==
    LET hits == {i \in 1..Len(list) : Text(list[i]) = txt}
    IN  IF hits = {} THEN 0 ELSE CHOOSE i \in hits : \A k \in hits : i <= k

\* LREM key 1 v: delete the first element, from the head, equal to v.
LRem1(list, txt) ==
    LET i == FirstIndex(list, txt)
    IN  IF i = 0 THEN list ELSE SubSeq(list, 1, i - 1) \o SubSeq(list, i + 1, Len(list))

(***************************************************************************)
(* Correlation identifiers (go/pkg/correlation).                            *)
(***************************************************************************)
\* IDGenerator.Generate: "{service}-{timestamp}-{random}", never empty; the
\* draw stands for the timestamp and the random number together.
Generate(service, draw) == <<service, draw>>

\* time.Now().Unix() and g.rng.Intn(0xFFFFFF)
IdDraws == {7}

\* A handleJob that keeps the field of the job as it is.
ResultCorrelationID_Verbatim(job, draw) == job.cid

\* handleJob: job.CorrelationID, or a generated identifier when it is empty.
ResultCorrelationID(job, draw) ==
    IF job.cid = "" THEN Generate("worker", draw) ELSE job.cid

(***************************************************************************)
(* Front-End: the /move handler (go/api/main.go).                           *)
(***************************************************************************)
\* Elo defaults and clamps, think-time default.
\* A normalisation that clamps before it applies the default.
NormElo_ClampFirst(elo) ==
    LET e0 == IF elo < 1320 THEN 1320 ELSE elo
        e1 == IF e0 > 3190 THEN 3190 ELSE e0
    IN  IF e1 = 0 THEN 1600 ELSE e1

NormElo(elo) ==
    LET e0 == IF elo = 0 THEN 1600 ELSE elo
        e1 == IF e0 < 1320 THEN 1320 ELSE e0
    IN  IF e1 > 3190 THEN 3190 ELSE e1

NormMoveTime(mt) == IF mt <= 0 THEN 1000 ELSE mt

\* fmt.Sprintf("job_%d_%d", time.Now().UnixNano(), req.Elo)
JobID(t, elo) == <<t, elo>>

\* The X-Correlation-ID header each invocation arrives with ("": none).
XCorrelationID(r) == IF r = "r1" THEN "X1" ELSE ""

\* xcid is the X-Correlation-ID header of the response: enableCORS and the
\* handler set no such header, so it stays absent ("") on every path.
\* retryAfter is the Retry-After header of the response, which http.Error
\* does not set either.
\* msg is the text http.Error writes, as the sequence of its parts; resp is
\* the MoveResponse of a 200.
IdleReq ==
    [pc |-> "idle", status |-> 0, jobID |-> <<>>, match |-> <<>>, xcid |-> "",
     retryAfter |-> "", msg |-> <<>>, resp |-> <<>>]

\* A handler that does not look at the FEN before it goes on.
EarlyReturn_NoFenCheck(method, jsonOk, fenLen) ==
    IF method = "OPTIONS" THEN 204
    ELSE IF method # "POST" THEN 405
    ELSE IF ~jsonOk THEN 400
    ELSE 0

\* The returns of the /move handler before it builds a Job: the status
\* written, 0 when the handler goes on.
EarlyReturn(method, jsonOk, fenLen) ==
    IF method = "OPTIONS" THEN 204
    ELSE IF method # "POST" THEN 405
    ELSE IF ~jsonOk \/ fenLen = 0 THEN 400
    ELSE 0

\* The handler from entry to the call of waitForResult.
MoveRequest(r, method, jsonOk, fenLen, elo, mt, pushOk) ==
    /\ req[r].pc = "idle"
    /\ LET e   == NormElo(elo)
           m   == NormMoveTime(mt)
           id  == JobID(nano, e)
           \* the Job of the Front-End has no correlation_id field: the
           \* Processor's json.Unmarshal leaves Job.CorrelationID empty
           job == [id |-> id, rid |-> r, elo |-> e, maxTime |-> m, cid |-> ""]
           end(st) == [req EXCEPT ![r] = [IdleReq EXCEPT !.pc = "done", !.status = st]]
       IN  IF EarlyReturn(method, jsonOk, fenLen) # 0 THEN
                /\ req' = end(EarlyReturn(method, jsonOk, fenLen))
                /\ UNCHANGED <<jobs, qlog>>
           ELSE IF fenLen < 20 THEN
                \* req.FEN[:20] panics; net/http recovers and drops the connection
                /\ req' = [req EXCEPT ![r] = [IdleReq EXCEPT !.pc = "panic"]]
                /\ UNCHANGED <<jobs, qlog>>
           ELSE IF ~pushOk THEN
                /\ req' = end(503) /\ UNCHANGED <<jobs, qlog>>
           ELSE
                /\ jobs' = LPush(jobs, job)
                /\ qlog' = Append(qlog, <<"push", r>>)
                /\ req' = [req EXCEPT ![r] = [IdleReq EXCEPT !.pc = "wait", !.jobID = id]]
    /\ UNCHANGED <<results, nano, tasks, removed>>
    /\ UNCHANGED <<retryVars, workerVars>>

\* A scan that takes the first record whatever its job identifier.
MatchIndex_Any(snapshot, jobID) == IF snapshot = <<>> THEN 0 ELSE 1

\* The first record of a snapshot whose job identifier is jobID (0: none).
MatchIndex(snapshot, jobID) ==
    LET hits == {i \in 1..Len(snapshot) : snapshot[i].id = jobID}
    IN  IF hits = {} THEN 0 ELSE CHOOSE i \in hits : \A k \in hits : i <= k

\* waitForResult, one poll: LRANGE and the scan of the snapshot.  Without a
\* match the poller sleeps and loops, which leaves the state as it is.
Poll(r) ==
    /\ req[r].pc = "wait"
    /\ LET snapshot == LRange(results)
           i        == MatchIndex(snapshot, req[r].jobID)
       IN  /\ i # 0
           /\ req' = [req EXCEPT ![r].pc = "claim", ![r].match = snapshot[i]]
    /\ UNCHANGED <<jobs, results, nano, tasks, qlog, removed>>
    /\ UNCHANGED <<retryVars, workerVars>>

\* A waitForResult that returns every matched result as a success.
WaitError_Ignored(result) == <<>>

\* The error waitForResult returns for a matched result (<<>>: nil).
WaitError(result) ==
    IF result.err # "" THEN <<"engine error: ", result.err>> ELSE <<>>

\* waitForResult finds no match before its deadline.
WaitTimedOut == <<"timeout waiting for job result">>

\* The handler's answer to the return of waitForResult: status and text.
Answer(err) ==
    IF err # <<>> THEN [status |-> 408, msg |-> <<"job timeout or error: ">> \o err]
    ELSE [status |-> 200, msg |-> <<>>]

\* MoveResponse{BestMove: result.BestMove, Ponder: result.Ponder, Info: result.Info}
MoveResponse(result) ==
    [bestmove |-> result.best, ponder |-> result.ponder, info |-> result.info]

\* waitForResult, after a match: LREM of the matched text, then the return
\* and the handler's response.
Claim(r) ==
    /\ req[r].pc = "claim"
    /\ LET txt == Text(req[r].match)
           i   == FirstIndex(results, txt)
       IN  /\ results' = LRem1(results, txt)
           /\ removed' = IF i = 0 THEN removed ELSE removed \cup {<<r, results[i]>>}
    /\ req' = [req EXCEPT ![r].pc = "done",
                          ![r].status = Answer(WaitError(req[r].match)).status,
                          ![r].msg = Answer(WaitError(req[r].match)).msg,
                          ![r].resp = IF WaitError(req[r].match) = <<>>
                                         THEN MoveResponse(req[r].match) ELSE <<>>]
    /\ UNCHANGED <<jobs, nano, tasks, qlog>>
    /\ UNCHANGED <<retryVars, workerVars>>

\* waitForResult, deadline reached at the loop head: 408.
Timeout(r) ==
    /\ req[r].pc = "wait"
    /\ req' = [req EXCEPT ![r].pc = "done",
                          ![r].status = Answer(WaitTimedOut).status,
                          ![r].msg = Answer(WaitTimedOut).msg]
    /\ UNCHANGED <<jobs, results, nano, tasks, qlog, removed>>
    /\ UNCHANGED <<retryVars, workerVars>>

\* The Front-End's clock advances.
Tick ==
    /\ nano < MaxNano
    /\ nano' = nano + 1
    /\ UNCHANGED <<jobs, results, req, tasks, qlog, removed>>
    /\ UNCHANGED <<retryVars, workerVars>>

(***************************************************************************)
(* Processor, queue view (go/worker/main.go).                               *)
(***************************************************************************)
\* processJobs: BLPOP returns a job and a task is spawned for it.
BLPop(p) ==
    /\ jobs # <<>>
    /\ LET job == LPopValue(jobs)
       IN  /\ tasks' = tasks \cup {[job |-> job, proc |-> p]}
           /\ qlog' = Append(qlog, <<"pop", job.rid, p>>)
    /\ jobs' = LPopRest(jobs)
    /\ UNCHANGED <<results, req, nano, removed>>
    /\ UNCHANGED <<retryVars, workerVars>>

\* handleJob, as the queue sees it: the task pushes its JobResult (a best move
\* or an error), or every RPUSH of the retry policy fails and the result is
\* dropped.
HandleJob(t, err, pushOk) ==
    /\ t \in tasks
    /\ tasks' = tasks \ {t}
    /\ IF pushOk
                    THEN \E draw \in IdDraws :
                           results' = RPush(results,
                               [id |-> t.job.id, err |-> err, rid |-> t.job.rid,
                                cid |-> ResultCorrelationID(t.job, draw),
                                best |-> IF err = "" THEN "e2e4" ELSE "",
                                ponder |-> "", info |-> <<>>])
                    ELSE results' = results
    /\ UNCHANGED <<jobs, req, nano, qlog, removed>>
    /\ UNCHANGED <<retryVars, workerVars>>

ResultErrors == {"", "engine error"}

InitQueue ==
    /\ jobs = <<>>
    /\ results = <<>>
    /\ req = [r \in Reqs |-> IdleReq]
    /\ nano = 0
    /\ tasks = {}
    /\ qlog = <<>>
    /\ removed = {}

\* No stand-alone retry call is running.
NoRetry ==
    /\ rcfg = [MaxAttempts |-> 0]
    /\ rs = [status |-> "none"]
    /\ rctx = "live"
    /\ rdelay = 0

\* The Processor before any signal: processJobs at its select, no job task
\* counted, both channels open, the whole drain time ahead, no payload
\* logged as invalid.
NoShutdown ==
    [stop |-> FALSE, loop |-> "select", active |-> 0, done |-> 0,
     expired |-> FALSE, left |-> DrainTicks, main |-> "running", dropped |-> 0]

\* No job task is running on the engine side.
NoWorker ==
    /\ wtask = <<>>
    /\ cb = [state |-> "closed"]
    /\ now = 0
    /\ dialLog = {}
    /\ whist = [streak |-> 0, openedAt |-> 0, lost |-> {}, pushed |-> 0, sockets |-> {}]
    /\ metric = [retryAttempts |-> 0]
    /\ sd = NoShutdown

Init == InitQueue /\ NoRetry /\ NoWorker

Next ==
    \/ \E r \in Reqs, method \in Methods, jsonOk \in BOOLEAN, fenLen \in FenLengths,
          elo \in EloInputs, mt \in MoveInputs, pushOk \in BOOLEAN :
             MoveRequest(r, method, jsonOk, fenLen, elo, mt, pushOk)
    \/ \E r \in Reqs : Poll(r)
    \/ \E r \in Reqs : Claim(r)
    \/ \E r \in Reqs : Timeout(r)
    \/ Tick
    \/ \E p \in Procs : BLPop(p)
    \/ \E t \in tasks, err \in ResultErrors, pushOk \in BOOLEAN : HandleJob(t, err, pushOk)

Spec == Init /\ [][Next]_vars

(***************************************************************************)
(* Properties of the queue protocol (specification Spec).                   *)
(***************************************************************************)
PushAt(k) == qlog[k][1] = "push"
PopAt(k)  == qlog[k][1] = "pop"
Pushes(r) == Cardinality({k \in 1..Len(qlog) : PushAt(k) /\ qlog[k][2] = r})
Pops(r)   == Cardinality({k \in 1..Len(qlog) : PopAt(k) /\ qlog[k][2] = r})

\* C1 (as claimed): jobs are delivered FIFO.  Whenever a pop returns job B,
\* every job A that was pushed before B has already been popped: of two jobs
\* that are in the list together, the one pushed first is popped first.
C1_FIFO ==
    \A k \in 1..Len(qlog) : PopAt(k) =>
        \A i, j \in 1..Len(qlog) :
            (PushAt(i) /\ PushAt(j) /\ i < j /\ qlog[j][2] = qlog[k][2]) =>
                \E m \in 1..(k - 1) : PopAt(m) /\ qlog[m][2] = qlog[i][2]

\* A request is accepted when its job was queued and the handler went on to
\* wait for the result.
Accepted(r) == req[r].jobID # <<>>

InList(r)  == Cardinality({i \in 1..Len(jobs) : jobs[i].rid = r})
InTasks(r) == Cardinality({t \in tasks : t.job.rid = r})

\* C2: every accepted /move request pushed its Job exactly once (a request
\* that was not accepted pushed none), and every pushed Job is popped at most
\* once, by one Processor, whatever the interleaving of the Processors: a
\* Job is never in the list and in a task, nor in two tasks, at once.
C2_PushedOnceHandedOnce ==
    \A r \in Reqs :
        /\ Pushes(r) = (IF Accepted(r) THEN 1 ELSE 0)
        /\ Pops(r) <= Pushes(r)
        /\ InList(r) + InTasks(r) <= 1
        /\ InList(r) = Pushes(r) - Pops(r)

\* Witness of C2: two accepted requests, their jobs popped by two different
\* Processors whose tasks run at the same time.
C2_Witness ==
    /\ \A r \in Reqs : Accepted(r) /\ Pops(r) = 1
    /\ \E t1, t2 \in tasks : t1.proc # t2.proc

\* the identifier the claim expects request r to carry: its header, or a
\* minted one
Carries(r, c) == IF XCorrelationID(r) # "" THEN c = XCorrelationID(r) ELSE c # ""

\* C15 (as claimed): the response to a /move request carries the request's
\* X-Correlation-ID (a minted one when the request has none) on every exit
\* path, and so do the Job enqueued and the JobResult published for it.
C15_CorrelationPropagated ==
    /\ \A r \in Reqs : req[r].pc = "done" => Carries(r, req[r].xcid)
    /\ \A i \in 1..Len(jobs) : Carries(jobs[i].rid, jobs[i].cid)
    /\ \A i \in 1..Len(results) : Carries(results[i].rid, results[i].cid)

\* a record is taken off stockfish:results in this step
Removes == Len(results') < Len(results)

\* the step is the matched removal of some waitForResult
MatchedRemoval == \E r \in Reqs : req[r].pc = "claim" /\ req'[r].pc = "done"

\* the record at i belongs to a request whose handler has returned
Orphaned(i) == req[results[i].rid].pc = "done"

StaysListed(i) == \E j \in 1..Len(results') : results'[j] = results[i]

\* C37 (as claimed): records leave stockfish:results only by the matched
\* removal of a wait loop; so a result whose requester has timed out or gone
\* stays in the list in every later state, where every poll reads it again.
C37_OrphansStay ==
    [][/\ Removes => MatchedRemoval
       /\ \A i \in 1..Len(results) : Orphaned(i) => StaysListed(i)]_vars

\* C35 (as claimed): two distinct /move requests in flight at one Front-End
\* never wait on the same job identifier, whether or not they ask for the
\* same Elo.
C35_JobIDsUnique ==
    \A r1, r2 \in Reqs :
        (r1 # r2 /\ req[r1].pc \in {"wait", "claim"} /\ req[r2].pc \in {"wait", "claim"}) =>
            req[r1].jobID # req[r2].jobID

\* C20 (as claimed): when the queue is down the Front-End answers a POST
\* /move it does not queue with 503 and the header Retry-After: 30 (the
\* answer of the queue breaker when it is Open).
C20_QueueDownAnswer ==
    \A r \in Reqs :
        req[r].pc = "done" /\ req[r].status = 503 => req[r].retryAfter = "30"

\* the handler of r returns from waitForResult with its match in this step
Claims(r) == req[r].pc = "claim" /\ req'[r].pc = "done"

\* the results list loses the first record of the given text, if it has one
LosesFirst(txt) ==
    LET at == {i \in 1..Len(results) : Text(results[i]) = txt}
    IN  IF at = {} THEN results' = results
        ELSE \E i \in at :
                /\ \A j \in at : i <= j
                /\ results' = SubSeq(results, 1, i - 1)
                                  \o SubSeq(results, i + 1, Len(results))

\* the answer to a matched result that carries an error
ErrorAnswered(r) ==
    req[r].match.err # ""
       => /\ req'[r].status = 408
          /\ \E k \in 1..Len(req'[r].msg) : req'[r].msg[k] = req[r].match.err

\* C22: when the matched result carries a non-empty error the Front-End
\* answers 408 with the engine's error string, never 200, and the matched
\* record has left stockfish:results exactly as for a successful result.
C22_ErrorResult ==
    [][\A r \in Reqs :
          Claims(r) => ErrorAnswered(r) /\ LosesFirst(Text(req[r].match))]_vars

\* Witness of C22: a request answered 408 for a matched engine error, its
\* record gone from the results list.
C22_Witness ==
    \E r \in Reqs :
        /\ req[r].pc = "done" /\ req[r].status = 408
        /\ req[r].match # <<>> /\ req[r].match.err # ""
        /\ \A i \in 1..Len(results) : Text(results[i]) # Text(req[r].match)

Returned(r) == req[r].pc = "done" /\ req[r].match # <<>>

\* C4 (as claimed): a result record is claimed at most once.  No two pollers
\* return the same pushed record.
C4_ClaimedAtMostOnce ==
    \A r1, r2 \in Reqs :
        (r1 # r2 /\ Returned(r1) /\ Returned(r2)) => req[r1].match.rid # req[r2].match.rid

WithID(list, id) == SelectSeq(list, LAMBDA rec : rec.id = id)

IsPrefix(s, t) == Len(s) <= Len(t) /\ SubSeq(t, 1, Len(s)) = s

JobIDs == {JobID(t, NormElo(e)) : t \in 0..(MaxNano + 1), e \in EloInputs}

OwnRecordOnly ==
    /\ \A x \in removed : x[2].id = req[x[1]].jobID
    /\ \A r \in Reqs : req[r].match # <<>> => req[r].match.id = req[r].jobID

\* A step leaves the records of identifier id in place, in order (a push may
\* add one at the tail), unless a poller waiting on id completes its claim.
OthersUntouched ==
    \A id \in JobIDs :
        (~ \E r \in Reqs : req[r].pc = "claim" /\ req'[r].pc = "done" /\ req[r].jobID = id)
            => IsPrefix(WithID(results, id), WithID(results', id))

Arrival(method, jsonOk, fenLen, elo, mt) ==
    [pc |-> "idle", status |-> 0, jobID |-> <<>>, match |-> <<>>, xcid |-> "",
     retryAfter |-> "", msg |-> <<>>, resp |-> <<>>, method |-> method, jsonOk |-> jsonOk, fenLen |-> fenLen,
     body |-> [Elo |-> elo, MoveTimeMs |-> mt]]

\* POSTs of every body with a FEN, and one invocation of each kind the
\* handler turns away before it looks at Elo or movetime_ms.
Arrivals ==
    {Arrival("POST", TRUE, n, e, m) :
        n \in FenLengths \ {0},
        e \in {0 - 1, 0, 1} \cup 1318..1321 \cup {1600, 2000} \cup 3189..3192,
        m \in {0 - 1, 0, 1, 1000, 5000}}
    \cup {Arrival(method, TRUE, 25, 0, 0) : method \in Methods \ {"POST"}}
    \cup {Arrival("POST", FALSE, 0, 0, 0), Arrival("POST", TRUE, 0, 0, 0)}

InitMove ==
    /\ jobs = <<>> /\ results = <<>> /\ nano = 0
    /\ tasks = {} /\ qlog = <<>> /\ removed = {}
    /\ req \in [Reqs -> Arrivals]
    /\ NoRetry /\ NoWorker

NextMove ==
    \E r \in Reqs, pushOk \in BOOLEAN :
          /\ req[r].pc = "idle"
          /\ MoveRequest(r, req[r].method, req[r].jsonOk, req[r].fenLen,
                         req[r].body.Elo, req[r].body.MoveTimeMs, pushOk)

SpecMove == InitMove /\ [][NextMove]_vars

\* the handler of r queues its Job in this step
Queues(r) == req[r].pc = "idle" /\ req'[r].pc = "wait"

\* the Job queued for a body: Elo and think time as the claim gives them
NormalisedJob(body, job) ==
    /\ job.elo = (CASE body.Elo = 0    -> 1600
                    [] body.Elo # 0 /\ body.Elo < 1320 -> 1320
                    [] body.Elo > 3190 -> 3190
                    [] OTHER -> body.Elo)
    /\ job.elo \in 1320..3190
    /\ job.maxTime = (IF body.MoveTimeMs <= 0 THEN 1000 ELSE body.MoveTimeMs)

\* C18: for every Elo and movetime_ms of a /move request the queued Job's
\* Elo is 1600 when the request's is 0, 1320 when it is below 1320 and not
\* 0, 3190 when it is above 3190 and the request's value otherwise, so it
\* lies in [1320, 3190]; the Job's think time is 1000 when movetime_ms <= 0
\* and the request's value otherwise.
C18_Normalised ==
    [][\A r \in Reqs :
          Queues(r) => /\ Len(jobs') = Len(jobs) + 1
                       /\ jobs'[1].rid = r
                       /\ NormalisedJob(req[r].body, jobs'[1])]_vars

\* Witness of C18: Jobs of a defaulted Elo and of an Elo clamped from above
\* are queued, one of them with the default think time.
C18_Witness ==
    /\ Len(jobs) = 2
    /\ jobs[1].elo = 3190 /\ jobs[1].maxTime = 1000
    /\ jobs[2].elo = 1600 /\ jobs[2].maxTime = 5000

\* the handler of r runs in this step
Handles(r) == req[r].pc = "idle" /\ req'[r] # req[r]

\* r is answered with status st and nothing else happens: no Job is pushed,
\* and the handler is done without having waited on the results list
RejectedWith(r, st) ==
    /\ req'[r].pc = "done" /\ req'[r].status = st
    /\ req'[r].jobID = <<>> /\ req'[r].match = <<>>
    /\ jobs' = jobs /\ qlog' = qlog
    /\ results' = results /\ removed' = removed

ClientErrors(r) ==
    LET a == req[r]
    IN  /\ a.method = "OPTIONS" => RejectedWith(r, 204)
        /\ a.method \notin {"OPTIONS", "POST"} => RejectedWith(r, 405)
        /\ a.method = "POST" /\ ~a.jsonOk => RejectedWith(r, 400)
        /\ a.method = "POST" /\ a.jsonOk /\ a.fenLen = 0 => RejectedWith(r, 400)

\* C19: client errors on /move are turned away before any queue interaction:
\* OPTIONS gets 204, any other method than POST 405, a malformed JSON body
\* 400, an empty FEN 400; on each of these paths no Job is pushed and the
\* results list is not read.
C19_ClientErrorsRejected == [][\A r \in Reqs : Handles(r) => ClientErrors(r)]_vars

\* Witness of C19: a request has been turned away with 405 and another with
\* 400, the jobs list still empty.
C19_Witness ==
    /\ req["r1"].pc = "done" /\ req["r1"].status = 405
    /\ req["r2"].pc = "done" /\ req["r2"].status = 400
    /\ jobs = <<>>

\* C36 (as claimed): every POST /move with a well-formed body and a
\* non-empty FEN, whatever the FEN's length, pushes exactly one Job to
\* stockfish:jobs and enters the wait for its result (or is answered 503
\* when the push itself fails).
C36_ValidatedIsQueued ==
    [][\A r \in Reqs :
          (Handles(r) /\ req[r].method = "POST" /\ req[r].jsonOk /\ req[r].fenLen > 0) =>
              \/ (Queues(r) /\ Len(jobs') = Len(jobs) + 1 /\ jobs'[1].rid = r)
              \/ (req'[r].status = 503 /\ jobs' = jobs)]_vars

(***************************************************************************)
(* waitForResult with its clock (go/api/main.go): the handlers have queued   *)
(* their Jobs and poll the results list until their deadlines.  nano is the  *)
(* Front-End's clock in milliseconds.                                        *)
(***************************************************************************)
WaitExtra == 5000      \* timeout := req.MoveTimeMs + 5000
PollSleep == 100       \* time.Sleep(100 * time.Millisecond)
ElapseStep == 20 * PollSleep
WaitStart(r) == IF r = "r1" THEN 0 ELSE 1
WaitHorizon == 1 + 1000 + WaitExtra + ElapseStep

\* A loop that never sees its deadline.
Before_NoDeadline(t, deadline) == TRUE

\* time.Now().Before(deadline)
Before(t, deadline) == t < deadline

\* The handler of a queued Job on entry to waitForResult.
Waiting(id, deadline) ==
    [pc |-> "wait", status |-> 0, jobID |-> id, match |-> <<>>, xcid |-> "",
     retryAfter |-> "", msg |-> <<>>, resp |-> <<>>, deadline |-> deadline]

WaitJob(r, mt) ==
    [id |-> JobID(WaitStart(r), NormElo(0)), rid |-> r, elo |-> NormElo(0),
     maxTime |-> mt, cid |-> ""]

InitWait ==
    /\ \E mt \in [Reqs -> {NormMoveTime(m) : m \in MoveInputs}] :
          /\ jobs = LPush(LPush(<<>>, WaitJob("r1", mt["r1"])), WaitJob("r2", mt["r2"]))
          /\ req = [r \in Reqs |->
                       Waiting(WaitJob(r, mt[r]).id, WaitStart(r) + mt[r] + WaitExtra)]
    /\ results = <<>>
    /\ nano = 1
    /\ tasks = {}
    /\ qlog = << <<"push", "r1">>, <<"push", "r2">> >>
    /\ removed = {}
    /\ NoRetry /\ NoWorker

\* One iteration of the loop before the deadline: LRANGE (which may fail),
\* the scan, and either the match or the sleep.
WaitLoop(r, readOk) ==
    /\ req[r].pc = "wait"
    /\ Before(nano, req[r].deadline)
    /\ LET snapshot == IF readOk THEN LRange(results) ELSE <<>>
           i        == MatchIndex(snapshot, req[r].jobID)
       IN  req' = IF i # 0
                  THEN [req EXCEPT ![r].pc = "claim", ![r].match = snapshot[i]]
                  ELSE [req EXCEPT ![r].pc = "sleep"]
    /\ UNCHANGED <<jobs, results, nano, tasks, qlog, removed>>
    /\ UNCHANGED <<retryVars, workerVars>>

\* The loop condition fails: "timeout waiting for job result", 408.
Expire(r) ==
    /\ req[r].pc = "wait"
    /\ ~Before(nano, req[r].deadline)
    /\ req' = [req EXCEPT ![r].pc = "done",
                          ![r].status = Answer(WaitTimedOut).status,
                          ![r].msg = Answer(WaitTimedOut).msg]
    /\ UNCHANGED <<jobs, results, nano, tasks, qlog, removed>>
    /\ UNCHANGED <<retryVars, workerVars>>

\* Time passes; the sleeping handlers wake at their loop heads.
Elapse ==
    /\ nano < WaitHorizon
    /\ nano' = nano + ElapseStep
    /\ req' = [r \in Reqs |->
                 IF req[r].pc = "sleep" THEN [req[r] EXCEPT !.pc = "wait"] ELSE req[r]]
    /\ UNCHANGED <<jobs, results, tasks, qlog, removed>>
    /\ UNCHANGED <<retryVars, workerVars>>

NextWait ==
    \/ \E r \in Reqs, readOk \in BOOLEAN : WaitLoop(r, readOk)
    \/ \E r \in Reqs : Claim(r)
    \/ \E r \in Reqs : Expire(r)
    \/ Elapse
    \/ \E p \in Procs : BLPop(p)
    \/ \E t \in tasks, err \in ResultErrors, pushOk \in BOOLEAN : HandleJob(t, err, pushOk)

\* The handler goroutines run and the clock advances; the Processor may stop.
SpecWait ==
    /\ InitWait /\ [][NextWait]_vars
    /\ WF_vars(Elapse)
    /\ \A r \in Reqs : /\ WF_vars(\E readOk \in BOOLEAN : WaitLoop(r, readOk))
                        /\ WF_vars(Claim(r))
                        /\ WF_vars(Expire(r))

InWait(r) == req[r].pc \in {"wait", "sleep", "claim"}

\* at or after its deadline a handler at the loop head only leaves with 408
StopsAtDeadline(r) ==
    req[r].pc = "wait" /\ nano >= req[r].deadline /\ req'[r] # req[r]
       => req'[r].pc = "done" /\ req'[r].status = 408 /\ req'[r].match = <<>>

\* C21: every /move request that has queued a Job gets its response: the
\* handler polls until a matching result appears or the deadline
\* movetime_ms + 5000 ms is reached, and at the deadline it stops polling
\* and answers 408, also when the reads of the results list keep failing;
\* the Processor may still handle the Job afterwards.
C21_EventuallyResponds ==
    /\ \A r \in Reqs : InWait(r) ~> req[r].pc = "done"
    /\ [][\A r \in Reqs : StopsAtDeadline(r)]_vars

\* Witness of C21: a request was answered 408 at its deadline and the
\* Processor has published the result of its Job all the same.
C21_Witness ==
    /\ req["r1"].pc = "done" /\ req["r1"].status = 408 /\ req["r1"].match = <<>>
    /\ nano >= req["r1"].deadline
    /\ \E i \in 1..Len(results) : results[i].rid = "r1"

(***************************************************************************)
(* retry.WithRetry and its configurations (package retry).                  *)
(* Durations are in milliseconds, JitterPercent in percent.                 *)
(***************************************************************************)
StockfishRetryConfig ==
    [MaxAttempts |-> 3, InitialDelay |-> 100, MaxDelay |-> 5000,
     Multiplier |-> 2, JitterPercent |-> 20]

RedisPublishRetryConfig ==
    [MaxAttempts |-> 2, InitialDelay |-> 50, MaxDelay |-> 50,
     Multiplier |-> 1, JitterPercent |-> 0]

RedisResultRetryConfig ==
    [MaxAttempts |-> 3, InitialDelay |-> 100, MaxDelay |-> 5000,
     Multiplier |-> 2, JitterPercent |-> 20]

RECURSIVE Pow(_, _)
Pow(b, n) == IF n = 0 THEN 1 ELSE b * Pow(b, n - 1)

\* A backoff that is not capped by MaxDelay.
CalculateBackoff_NoCap(cfg, attempt, u) ==
    LET raw    == cfg.InitialDelay * Pow(cfg.Multiplier, attempt)
        jitter == (raw * cfg.JitterPercent * u) \div 10000
    IN  IF cfg.JitterPercent > 0 THEN raw + jitter ELSE raw

\* calculateBackoff; u is the draw 2*rand.Float64()-1 in hundredths, -100..100.
CalculateBackoff(cfg, attempt, u) ==
    LET raw    == cfg.InitialDelay * Pow(cfg.Multiplier, attempt)
        capped == IF raw > cfg.MaxDelay THEN cfg.MaxDelay ELSE raw
        jitter == (capped * cfg.JitterPercent * u) \div 10000
        d      == IF cfg.JitterPercent > 0 THEN capped + jitter ELSE capped
    IN  IF cfg.JitterPercent > 0 /\ d < 0 THEN cfg.InitialDelay ELSE d

\* attempt < cfg.MaxAttempts, the condition of the for loop
RetryMore(cfg, attempt) == attempt < cfg.MaxAttempts

\* The loop at its entry: with MaxAttempts <= 0 the body never runs and the
\* function returns the exhausted error around a nil lastErr.
RetryStart(cfg) ==
    [status  |-> IF RetryMore(cfg, 0) THEN "run" ELSE "returned",
     ret     |-> IF RetryMore(cfg, 0) THEN "pending" ELSE "exhausted",
     attempt |-> 0,
     lastErr |-> "nil",
     hist    |-> <<>>,       \* history: the outcome of every call of fn
     sleeps  |-> 0]          \* history: the number of delays started

\* attempt == cfg.MaxAttempts-1
RetryLast(cfg, s) == s.attempt = cfg.MaxAttempts - 1

\* A loop that reports the first error instead of the last.
RetryCall_FirstErr(cfg, s, err) ==
    IF err = "nil" THEN
        [s EXCEPT !.hist = Append(@, err), !.status = "returned", !.ret = "nil"]
    ELSE IF RetryLast(cfg, s) THEN
        [s EXCEPT !.hist = Append(@, err), !.lastErr = IF @ = "nil" THEN err ELSE @,
                  !.status = "returned", !.ret = "exhausted"]
    ELSE
        [s EXCEPT !.hist = Append(@, err), !.lastErr = IF @ = "nil" THEN err ELSE @,
                  !.status = "wait", !.sleeps = @ + 1]

\* One pass of the loop body: fn() returned err ("nil" for success).
RetryCall(cfg, s, err) ==
    IF err = "nil" THEN
        [s EXCEPT !.hist = Append(@, err), !.status = "returned", !.ret = "nil"]
    ELSE IF RetryLast(cfg, s) THEN
        [s EXCEPT !.hist = Append(@, err), !.lastErr = err,
                  !.status = "returned", !.ret = "exhausted"]
    ELSE
        [s EXCEPT !.hist = Append(@, err), !.lastErr = err,
                  !.status = "wait", !.sleeps = @ + 1]

\* A loop whose counter does not advance.
RetryWake_NoIncrement(cfg, s) == [s EXCEPT !.status = "run"]

\* case <-time.After(delay): attempt++ and the loop condition.
RetryWake(cfg, s) ==
    IF RetryMore(cfg, s.attempt + 1)
        THEN [s EXCEPT !.attempt = @ + 1, !.status = "run"]
        ELSE [s EXCEPT !.attempt = @ + 1, !.status = "returned", !.ret = "exhausted"]

\* case <-ctx.Done(): return "retry cancelled".
RetryCancel(s) == [s EXCEPT !.status = "returned", !.ret = "cancelled"]

MaxCap == 4             \* the configurations tried have MaxAttempts in 0..MaxCap

RetryConfigs ==
    {StockfishRetryConfig, RedisResultRetryConfig, RedisPublishRetryConfig}
        \cup {[StockfishRetryConfig EXCEPT !.MaxAttempts = n] : n \in 0..MaxCap}

Errs == {"dial timeout", "connection refused"}

JitterDraws == {-100, 0, 100}

\* fn() is called and returns err.
RAttempt(err, u) ==
    /\ rs.status = "run"
    /\ rs' = RetryCall(rcfg, rs, err)
    /\ rdelay' = IF rs'.status = "wait" THEN CalculateBackoff(rcfg, rs.attempt, u) ELSE rdelay
    /\ UNCHANGED <<rcfg, rctx, queueVars, workerVars>>

\* A wait that does not watch the context (a plain sleep).
TimerCase_Always(ctx) == TRUE

\* The select of the wait: the case <-time.After(delay) is taken when the
\* delay ends with the context still live; a goroutine parked in the select
\* is resumed by the first channel that becomes ready, so once ctx.Done() is
\* closed the select takes that case.
TimerCase(ctx) == ctx = "live"

\* The delay elapses.
RWake ==
    /\ rs.status = "wait"
    /\ TimerCase(rctx)
    /\ rs' = RetryWake(rcfg, rs)
    /\ UNCHANGED <<rcfg, rctx, rdelay, queueVars, workerVars>>

\* The caller cancels its context.
RCtxCancel ==
    /\ rctx = "live"
    /\ rs.status # "returned"
    /\ rctx' = "done"
    /\ UNCHANGED <<rcfg, rs, rdelay, queueVars, workerVars>>

\* The select in the wait takes the ctx.Done() case.
RCancelled ==
    /\ rs.status = "wait"
    /\ rctx = "done"
    /\ rs' = RetryCancel(rs)
    /\ UNCHANGED <<rcfg, rctx, rdelay, queueVars, workerVars>>

InitRetry ==
    /\ InitQueue /\ NoWorker
    /\ rcfg \in RetryConfigs
    /\ rs = RetryStart(rcfg)
    /\ rctx = "live"
    /\ rdelay = 0

NextRetry ==
    \/ \E err \in Errs \cup {"nil"}, u \in JitterDraws : RAttempt(err, u)
    \/ RWake
    \/ RCtxCancel
    \/ RCancelled

SpecRetry == InitRetry /\ [][NextRetry]_vars

(***************************************************************************)
(* Properties of WithRetry (specification SpecRetry).                       *)
(***************************************************************************)
Cap(cfg) == IF cfg.MaxAttempts > 0 THEN cfg.MaxAttempts ELSE 0

\* C9: in every call of WithRetry, whatever the configuration and the
\* outcomes, fn is invoked at most cfg.MaxAttempts times; under the engine
\* connect policy and the result publish policy, the two a job uses, that is
\* at most 3 dials and at most 3 pushes.
C9_CallsWithinCap ==
    /\ Len(rs.hist) <= Cap(rcfg)
    /\ rcfg \in {StockfishRetryConfig, RedisResultRetryConfig} => Len(rs.hist) <= 3

\* Witness of C9: a call whose every attempt failed has made exactly
\* MaxAttempts invocations, for a cap of at least 3.
C9_Witness ==
    /\ rcfg.MaxAttempts >= 3
    /\ rs.status = "returned" /\ rs.ret = "exhausted"
    /\ Len(rs.hist) = rcfg.MaxAttempts

\* C10: WithRetry returns nil exactly at the first successful attempt, and
\* makes no attempt after it; when every attempt up to the cap failed it
\* returns the exhausted error around the error of the last attempt, having
\* started a delay after every attempt but the last; and once it has returned
\* nothing more is attempted.
C10_Returns ==
    LET n == Len(rs.hist) IN
    /\ \A i \in 1..n : rs.hist[i] = "nil" => (i = n /\ rs.status = "returned" /\ rs.ret = "nil")
    /\ rs.ret = "nil" => (n >= 1 /\ rs.hist[n] = "nil" /\ rs.sleeps = n - 1)
    /\ (rs.ret = "exhausted" /\ rcfg.MaxAttempts > 0) =>
          /\ n = rcfg.MaxAttempts
          /\ \A i \in 1..n : rs.hist[i] # "nil"
          /\ rs.lastErr = rs.hist[n]
          /\ rs.sleeps = n - 1
    /\ rs.status = "returned" => rs.ret # "pending"

C10_NoAttemptAfterReturn == [][rs.status = "returned" => rs' = rs]_vars

C10_ReturnContract == []C10_Returns /\ C10_NoAttemptAfterReturn

\* Witness of C10: three attempts failed with different errors and the call
\* returned exhausted, after two delays.
C10_Witness ==
    /\ rs.ret = "exhausted" /\ Len(rs.hist) = 3
    /\ rs.hist[1] # rs.hist[3]
    /\ rs.sleeps = 2

(***************************************************************************)
(* calculateBackoff on its own (specification SpecBackoff).                 *)
(***************************************************************************)
\* GetBackoffDuration
GetBackoffDuration(cfg, attempt, u) == CalculateBackoff(cfg, attempt, u)

MaxBackoffAttempt == 6  \* attempts 0..MaxBackoffAttempt

\* The three configurations of the repository and a family of others.
BackoffConfigs ==
    {StockfishRetryConfig, RedisPublishRetryConfig, RedisResultRetryConfig}
        \cup [MaxAttempts : {3}, InitialDelay : {50, 100}, MaxDelay : {10, 100, 5000},
              Multiplier : {1, 2}, JitterPercent : {0, 20, 100, 150}]

\* 2*rand.Float64() - 1 in hundredths
BackoffDraws == {10 * k : k \in -10..10}

InitBackoff ==
    /\ InitQueue /\ NoWorker
    /\ rcfg \in BackoffConfigs
    /\ rs \in [status : {"backoff"}, attempt : 0..MaxBackoffAttempt, u : BackoffDraws]
    /\ rctx = "live"
    /\ rdelay = 0

\* The delay is computed.
Backoff ==
    /\ rs.status = "backoff"
    /\ rdelay' = GetBackoffDuration(rcfg, rs.attempt, rs.u)
    /\ rs' = [rs EXCEPT !.status = "delay"]
    /\ UNCHANGED <<rcfg, rctx, queueVars, workerVars>>

NextBackoff == Backoff

SpecBackoff == InitBackoff /\ [][NextBackoff]_vars

\* base_n = min(initial * growth^n, cap)
BaseDelay(cfg, n) ==
    LET raw == cfg.InitialDelay * Pow(cfg.Multiplier, n)
    IN  IF raw < cfg.MaxDelay THEN raw ELSE cfg.MaxDelay

\* base_n*(1-jitter) <= d <= base_n*(1+jitter), and d = base_n without jitter
WithinJitter(cfg, n, d) ==
    /\ 100 * d >= BaseDelay(cfg, n) * (100 - cfg.JitterPercent)
    /\ 100 * d <= BaseDelay(cfg, n) * (100 + cfg.JitterPercent)
    /\ cfg.JitterPercent = 0 => d = BaseDelay(cfg, n)

SpecRetryFair == SpecRetry /\ WF_vars(RCancelled)

CancelledInWait == rs.status = "wait" /\ rctx = "done"

\* C11: when the caller's context is cancelled and WithRetry is in the wait
\* between two attempts, the only thing the loop does next is return the
\* cancellation error, without another call of fn; and it does return it.
C11_CancelAbortsWait ==
    /\ [][CancelledInWait => (rs' = rs \/ rs' = RetryCancel(rs))]_vars
    /\ [][rs.ret = "cancelled" => rs' = rs]_vars
    /\ (CancelledInWait ~> (rs.status = "returned" /\ rs.ret = "cancelled"))

\* Witness of C11: a call cancelled in the wait after its first failed
\* attempt, with attempts left.
C11_Witness ==
    /\ rs.ret = "cancelled" /\ rctx = "done"
    /\ Len(rs.hist) = 1 /\ rcfg.MaxAttempts >= 3

(***************************************************************************)
(* The engine circuit breaker: gobreaker.CircuitBreaker with the Settings   *)
(* of NewStockfishCircuitBreaker.  Times are in seconds.                    *)
(***************************************************************************)
FailureThreshold == 5       \* StockfishCircuitBreakerConfig
CBTimeout        == 30
CBMaxRequests    == 1
CBInterval       == 60      \* Settings.Interval

ZeroTime == 0 - 1           \* time.Time{}, before every time of the model

NoCounts ==
    [Requests |-> 0, TotalSuccesses |-> 0, TotalFailures |-> 0,
     ConsecutiveSuccesses |-> 0, ConsecutiveFailures |-> 0]

\* ReadyToTrip of NewStockfishCircuitBreaker: failureRatio >= 0.5 is
\* 2*TotalFailures >= Requests (Requests > 0 whenever it is evaluated).
ReadyToTrip(counts) ==
    \/ counts.ConsecutiveFailures >= FailureThreshold
    \/ (counts.Requests >= FailureThreshold /\ 2 * counts.TotalFailures >= counts.Requests)

\* toNewGeneration
ToNewGeneration(c, t) ==
    [c EXCEPT !.generation = @ + 1,
              !.counts = NoCounts,
              !.expiry = CASE c.state = "closed" -> (IF CBInterval = 0 THEN ZeroTime ELSE t + CBInterval)
                           [] c.state = "open"   -> t + CBTimeout
                           [] OTHER              -> ZeroTime]

\* setState
SetState(c, st, t) ==
    IF c.state = st THEN c ELSE ToNewGeneration([c EXCEPT !.state = st], t)

\* currentState: the lazy transitions, taken when the breaker is consulted.
CurrentState(c, t) ==
    CASE c.state = "closed" ->
            IF c.expiry # ZeroTime /\ c.expiry < t THEN ToNewGeneration(c, t) ELSE c
      [] c.state = "open" ->
            IF c.expiry < t THEN SetState(c, "half-open", t) ELSE c
      [] OTHER -> c

\* A beforeRequest that admits every caller of a half-open breaker.
Admission_NoProbeLimit(c) ==
    IF c.state = "open" THEN "ErrOpenState" ELSE "nil"

\* The error beforeRequest returns: "nil" admits the request.
Admission(c) ==
    IF c.state = "open" THEN "ErrOpenState"
    ELSE IF c.state = "half-open" /\ c.counts.Requests >= CBMaxRequests THEN "ErrTooManyRequests"
    ELSE "nil"

\* beforeRequest: the breaker after the call.
BeforeRequest(c, t) ==
    LET c1 == CurrentState(c, t)
    IN  IF Admission(c1) = "nil"
            THEN [c1 EXCEPT !.counts.Requests = @ + 1]
            ELSE c1

\* Counts.onSuccess / Counts.onFailure
CountSuccess(k) ==
    [k EXCEPT !.TotalSuccesses = @ + 1, !.ConsecutiveSuccesses = @ + 1,
              !.ConsecutiveFailures = 0]
CountFailure(k) ==
    [k EXCEPT !.TotalFailures = @ + 1, !.ConsecutiveFailures = @ + 1,
              !.ConsecutiveSuccesses = 0]

\* onSuccess
OnSuccess(c, t) ==
    CASE c.state = "closed" -> [c EXCEPT !.counts = CountSuccess(@)]
      [] c.state = "half-open" ->
            LET c1 == [c EXCEPT !.counts = CountSuccess(@)]
            IN  IF c1.counts.ConsecutiveSuccesses >= CBMaxRequests
                    THEN SetState(c1, "closed", t) ELSE c1
      [] OTHER -> c

\* onFailure
OnFailure(c, t) ==
    CASE c.state = "closed" ->
            LET c1 == [c EXCEPT !.counts = CountFailure(@)]
            IN  IF ReadyToTrip(c1.counts) THEN SetState(c1, "open", t) ELSE c1
      [] c.state = "half-open" -> SetState(c, "open", t)
      [] OTHER -> c

\* afterRequest: outcomes of an earlier generation are discarded.
AfterRequest(c, t, before, success) ==
    LET c1 == CurrentState(c, t)
    IN  IF c1.generation # before THEN c1
        ELSE IF success THEN OnSuccess(c1, t) ELSE OnFailure(c1, t)

\* NewCircuitBreaker at time t.
NewBreaker(t) ==
    ToNewGeneration([state |-> "closed", generation |-> 0, counts |-> NoCounts,
                     expiry |-> ZeroTime], t)

\* The phase a caller would find at time t.
Phase(c, t) == CurrentState(c, t).state

(***************************************************************************)
(* executeChessComputation (go/worker/main.go): the UCI dialog.  A line is   *)
(* the sequence of its fields; an engine is the lines it emits, in order,    *)
(* and what it does after the last one: "silent" (every read times out) or   *)
(* "closed" (the read fails with EOF).  Writes succeed and lines arrive at   *)
(* once, so that time passes only in reads that time out.  Times are in      *)
(* milliseconds.                                                             *)
(***************************************************************************)
\* strings.Contains(line, substr), for a substr that is one field
Contains(line, substr) == \E i \in 1..Len(line) : line[i] = substr

\* strings.HasPrefix(strings.TrimSpace(line), word + " ")
HasPrefix(line, word) == Len(line) >= 2 /\ line[1] = word

\* readUntil: the lines left after the first one that contains substr, or
\* the error after timeout ms of silence or at the end of the stream.
ReadUntil(lines, ending, substr, timeout) ==
    LET hits == {i \in 1..Len(lines) : Contains(lines[i], substr)}
    IN  IF hits # {}
        THEN LET i == CHOOSE i \in hits : \A j \in hits : i <= j
             IN  [rest |-> SubSeq(lines, i + 1, Len(lines)), err |-> <<>>, waited |-> 0]
        ELSE IF ending = "silent"
        THEN [rest |-> <<>>, err |-> <<"timeout waiting for ", substr>>,
              waited |-> timeout]
        ELSE [rest |-> <<>>, err |-> <<"EOF">>, waited |-> 0]

\* what executeChessComputation returns, and the time it took
Computed(best, ponder, info, err, waited) ==
    [best |-> best, ponder |-> ponder, info |-> info, err |-> err, waited |-> waited]

\* A parse that takes the field after "bestmove" for the ponder move too.
ParseBestmove_PonderIsMove(fields, infoLines, waited) ==
    Computed(fields[2], fields[2], infoLines, <<>>, waited)

\* The "bestmove " branch of the wait loop.
ParseBestmove(fields, infoLines, waited) ==
    LET bestMove == IF Len(fields) >= 2 THEN fields[2] ELSE ""
        ponder   == IF Len(fields) >= 4 /\ fields[3] = "ponder" THEN fields[4] ELSE ""
    IN  IF bestMove = "" THEN Computed("", "", <<>>, <<"no bestmove received">>, waited)
        ELSE Computed(bestMove, ponder, infoLines, <<>>, waited)

\* The wait for bestmove: empty lines and lines of other kinds are skipped,
\* "info " lines collected, the first "bestmove " line ends the wait.
RECURSIVE WaitBestmove(_, _, _, _, _)
WaitBestmove(lines, ending, infoLines, timeout, waited) ==
    IF lines = <<>>
    THEN IF ending = "silent"
         THEN Computed("", "", <<>>, <<"timeout waiting for bestmove">>, waited + timeout)
         ELSE Computed("", "", <<>>, <<"engine read error: ", "EOF">>, waited)
    ELSE IF HasPrefix(Head(lines), "info")
    THEN WaitBestmove(Tail(lines), ending, Append(infoLines, Head(lines)), timeout, waited)
    ELSE IF HasPrefix(Head(lines), "bestmove")
    THEN ParseBestmove(Head(lines), infoLines, waited)
    ELSE WaitBestmove(Tail(lines), ending, infoLines, timeout, waited)

\* A dialog that goes to the wait for bestmove without the handshake.
ExecuteChessComputation_NoHandshake(engine, job) ==
    WaitBestmove(engine.script, engine.ending, <<>>,
                 (IF job.maxTime <= 0 THEN 1000 ELSE job.maxTime) + 5000, 0)

ExecuteChessComputation(engine, job) ==
    LET uci == ReadUntil(engine.script, engine.ending, "uciok", 3000)
        rdy == ReadUntil(uci.rest, engine.ending, "readyok", 2000)
        moveTimeMs == IF job.maxTime <= 0 THEN 1000 ELSE job.maxTime
    IN  IF uci.err # <<>>
        THEN Computed("", "", <<>>, <<"uci init error: ">> \o uci.err, uci.waited)
        ELSE IF rdy.err # <<>>
        THEN Computed("", "", <<>>, <<"ready check error: ">> \o rdy.err, rdy.waited)
        ELSE WaitBestmove(rdy.rest, engine.ending, <<>>, moveTimeMs + 5000, 0)

\* handleJob has not run the dialog (no connection).
NotComputed == Computed("", "", <<>>, <<>>, 0)

(***************************************************************************)
(* One Processor, engine side: the job tasks (go/worker/main.go).           *)
(***************************************************************************)
MaxJobs  == 3           \* jobs waiting in stockfish:jobs
WarmLen  == FailureThreshold - 1   \* connects already attempted: too few to open the breaker
MaxTicks == 2           \* the clock advances at most MaxTicks times
TickStep == CBTimeout + 1         \* by TickStep seconds each time
Slots    == {"t1", "t2"}          \* job tasks that run at the same time

IdleTask ==
    [pc |-> "idle", job |-> <<>>, cid |-> "", gen |-> 0, rs |-> <<>>,
     rej |-> "none", err |-> "", conn |-> FALSE, out |-> NotComputed]

\* The messages connectToStockfish and handleJob put in result.Error.
MsgOpen     == "engine connect error: stockfish service temporarily unavailable (circuit breaker open, will retry in 30s)"
MsgHalfOpen == "engine connect error: stockfish service test connection failed (circuit breaker half-open)"
MsgConnect  == "engine connect error: failed to connect to stockfish"
MsgCompute  == "engine computation error"

\* The history of the breaker after a step that takes it from c to c1.
Tripped(c, c1) == c.state # "open" /\ c1.state = "open"
NoteTrip(h, c, c1, t) == IF Tripped(c, c1) THEN [h EXCEPT !.openedAt = t] ELSE h

\* OnStateChange of NewStockfishCircuitBreaker: the encoding of the phase.
StateValue(st) ==
    CASE st = "closed"    -> 0
      [] st = "half-open" -> 1
      [] st = "open"      -> 2

\* An OnStateChange that counts every transition as a failure.
OnStateChange_CountsAll(m, from, to) ==
    [m EXCEPT !.circuitState = StateValue(to), !.circuitFailures = @ + 1]

\* OnStateChange: SetCircuitBreakerState, and IncrementCircuitBreakerFailures
\* when the breaker opens.
OnStateChange(m, from, to) ==
    [m EXCEPT !.circuitState = StateValue(to),
              !.circuitFailures = IF to = "open" THEN @ + 1 ELSE @]

\* The collectors after a breaker call that took the breaker from c to c1:
\* setState calls OnStateChange when the state changes.
BreakerMetrics(m, c, c1) ==
    IF c.state # c1.state THEN OnStateChange(m, c.state, c1.state) ELSE m

\* retryCfg.OnRetry of connectToStockfish and of publishResult: a log line;
\* retry_attempts_total is left as it is.
OnRetry(m) == m

\* n calls of OnRetry
RECURSIVE Retried(_, _)
Retried(m, n) == IF n = 0 THEN m ELSE Retried(OnRetry(m), n - 1)

\* metricsCol.RecordTotalProcessingTime: one observation.
RecordTotalProcessingTime(m) == [m EXCEPT !.totalProcessed = @ + 1]

\* processJobs pops a job and spawns handleJob; the task counts itself in
\* activeJobsCount and runs up to the call of stockfishCB.Execute.
WStart(t) ==
    /\ wtask[t].pc = "idle"
    /\ jobs # <<>>
    /\ \E draw \in IdDraws :
          wtask' = [wtask EXCEPT ![t] =
                       [IdleTask EXCEPT !.pc = "execute", !.job = LPopValue(jobs),
                                        !.cid = ResultCorrelationID(LPopValue(jobs), draw)]]
    /\ jobs' = LPopRest(jobs)
    /\ sd' = [sd EXCEPT !.active = @ + 1]
    /\ UNCHANGED <<results, req, nano, tasks, qlog, removed, retryVars, cb, now, dialLog, whist, metric>>

\* stockfishCB.Execute, beforeRequest: the call is admitted, or refused with
\* ErrOpenState or ErrTooManyRequests; connectToStockfish turns a refusal
\* into its error and handleJob goes on to publish the error result.
WExecute(t) ==
    /\ wtask[t].pc = "execute"
    /\ LET c1 == BeforeRequest(cb, now)
           e  == Admission(CurrentState(cb, now))
       IN  /\ cb' = c1
           /\ whist' = NoteTrip(whist, cb, c1, now)
           /\ metric' = BreakerMetrics(metric, cb, c1)
           /\ wtask' = [wtask EXCEPT ![t] =
                 IF e # "nil"
                 THEN [@ EXCEPT !.pc = "finish",
                                !.rej = IF e = "ErrOpenState" THEN "open" ELSE "half-open",
                                !.err = IF e = "ErrOpenState" THEN MsgOpen ELSE MsgHalfOpen]
                 ELSE [@ EXCEPT !.pc = "dial", !.gen = c1.generation,
                                !.rs = RetryStart(StockfishRetryConfig)]]
    /\ UNCHANGED <<queueVars, retryVars, now, dialLog, sd>>

\* A connect whose every failed dial is reported to the breaker.
AfterDial_CountsEach(c, t, ok) == IF ok THEN c ELSE OnFailure(c, t)

\* The breaker after one net.DialTimeout: the dial's error goes back to
\* WithRetry, which runs inside the function stockfishCB.Execute has called.
AfterDial(c, t, ok) == c

\* One net.DialTimeout inside WithRetry; after a failure that is not the last
\* the task sleeps the backoff and loops.
WDial(t, ok) ==
    /\ wtask[t].pc = "dial"
    /\ wtask[t].rs.status = "run"
    /\ dialLog' = IF Phase(cb, now) = "open" THEN dialLog \cup {"job"} ELSE dialLog
    /\ LET s1 == RetryCall(StockfishRetryConfig, wtask[t].rs, IF ok THEN "nil" ELSE "dial error")
           s2 == IF s1.status = "wait" THEN RetryWake(StockfishRetryConfig, s1) ELSE s1
       IN  /\ wtask' = [wtask EXCEPT ![t].rs = s2,
                                     ![t].conn = ok,
                                     ![t].pc = IF s2.status = "returned" THEN "after" ELSE "dial"]
           /\ metric' = IF s1.status = "wait" THEN OnRetry(metric) ELSE metric
    /\ whist' = IF ok THEN [whist EXCEPT !.sockets = @ \cup {<<t, wtask[t].job.rid>>}]
                      ELSE whist
    /\ cb' = AfterDial(cb, now, ok)
    /\ UNCHANGED <<queueVars, retryVars, now, sd>>

\* stockfishCB.Execute, afterRequest, and the rest of connectToStockfish.
WAfter(t) ==
    /\ wtask[t].pc = "after"
    /\ LET ok == wtask[t].rs.ret = "nil"
           c1 == AfterRequest(cb, now, wtask[t].gen, ok)
       IN  /\ cb' = c1
           /\ metric' = BreakerMetrics(metric, cb, c1)
           /\ whist' = [NoteTrip(whist, cb, c1, now)
                            EXCEPT !.streak = IF ok THEN 0 ELSE @ + 1]
           /\ wtask' = [wtask EXCEPT ![t].pc = "finish",
                                     ![t].err = IF ok THEN "" ELSE MsgConnect]
    /\ UNCHANGED <<queueVars, retryVars, now, dialLog, sd>>

\* WithRetry run to its return on the outcomes outs of the successive calls.
RECURSIVE RunRetry(_, _, _)
RunRetry(cfg, s, outs) ==
    IF s.status = "returned" \/ outs = <<>> THEN s
    ELSE LET s1 == RetryCall(cfg, s, Head(outs))
             s2 == IF s1.status = "wait" THEN RetryWake(cfg, s1) ELSE s1
         IN  RunRetry(cfg, s2, Tail(outs))

\* The outcomes of the RPUSH attempts of one publishResult: k failures, then
\* successes.
PushOutcomes(k) == [i \in 1..RedisResultRetryConfig.MaxAttempts |->
                        IF i <= k THEN "push error" ELSE "nil"]

\* A handleJob whose connect-error path returns without publishing.
Publishes_OnlyConnected(w) == w.conn

\* handleJob calls publishResult on every path.
Publishes(w) == TRUE

\* The keys of result.Timings when handleJob calls publishResult, which
\* marshals the result first: queue_wait_ms when job.CreatedAt parses,
\* engine_connect_ms and engine_compute_ms after a connection.
\* result_publish_ms and total_ms are stored after publishResult has
\* returned.  job.CreatedAt is empty when the payload has no created_at
\* (the Job of the Front-End has no such field).
TimingsAtPublish(w) ==
    (IF "createdAt" \in DOMAIN w.job /\ w.job.createdAt = "rfc3339"
        THEN {"queue_wait_ms"} ELSE {})
      \cup (IF w.conn THEN {"engine_connect_ms", "engine_compute_ms"} ELSE {})

\* A handleJob that never copies the move into its result.
JobResultOf_DropsMove(w) ==
    [id |-> w.job.id, err |-> w.err, rid |-> w.job.rid, cid |-> w.cid,
     best |-> "", ponder |-> "", info |-> <<>>,
     detail |-> w.out.err, computeMs |-> w.out.waited,
     timings |-> TimingsAtPublish(w)]

\* The JobResult handleJob hands to publishResult: Error on the error
\* paths, BestMove, Ponder and Info otherwise.
JobResultOf(w) ==
    [id |-> w.job.id, err |-> w.err, rid |-> w.job.rid, cid |-> w.cid,
     best   |-> IF w.err # "" THEN "" ELSE w.out.best,
     ponder |-> IF w.err # "" THEN "" ELSE w.out.ponder,
     info   |-> IF w.err # "" THEN <<>> ELSE w.out.info,
     detail |-> w.out.err, computeMs |-> w.out.waited,
     timings |-> TimingsAtPublish(w)]

\* A publishResult whose record is on the list even when every RPUSH failed.
Pushed_EvenIfFailed(w, s) == <<JobResultOf(w)>>

\* The records pushed by a publishResult whose retry loop ended in state s.
Pushed(w, s) ==
    IF Publishes(w) /\ s.ret = "nil" THEN <<JobResultOf(w)>> ELSE <<>>

\* A handleJob that closes its connection at the end of the dialog that
\* gave a move.
Closes_AfterSuccess(w) == w.conn /\ w.err = ""

\* defer conn.Close(), registered once connectToStockfish has returned a
\* connection: it runs on every return after that.
Closes(w) == w.conn

\* A handleJob whose connect-error return skips the decrement.
ExitDelta_NoneOnConnectError(outcome) == IF outcome = "connect error" THEN 0 ELSE 0 - 1

\* defer atomic.AddInt32(&activeJobsCount, -1): on every return
ExitDelta(outcome) == 0 - 1

\* A handleJob that reports a failed dialog to the breaker as a failure.
AfterDialog_CountsFailure(c, t, out) ==
    IF out.err # <<>> THEN OnFailure(c, t) ELSE c

\* The breaker after executeChessComputation has returned out: the dialog
\* runs after stockfishCB.Execute has returned, and its error goes to
\* result.Error only.
AfterDialog(c, t, out) == c

\* The rest of handleJob after connectToStockfish: on a connection the engine
\* dialog (a best move or a dialog error), then publishResult with its retry
\* loop (k pushes fail first), the metrics, the deferred conn.Close and the
\* deferred decrement of activeJobsCount.  The task ends.  engine is the engine at the other end of the connection.
WFinish(t, engine, k) ==
    /\ wtask[t].pc = "finish"
    /\ LET w0 == wtask[t]
           w  == IF w0.conn
                 THEN LET out == ExecuteChessComputation(engine, w0.job)
                      IN  [w0 EXCEPT !.out = out,
                                     !.err = IF out.err # <<>> THEN MsgCompute ELSE @]
                 ELSE w0
       IN  \E s \in {RunRetry(RedisResultRetryConfig, RetryStart(RedisResultRetryConfig),
                              PushOutcomes(k))} :
           \E recs \in {Pushed(w, s)} :
              /\ results' = results \o recs
              /\ whist' = [(IF s.ret = "nil"
                               THEN [whist EXCEPT !.pushed = @ + Len(recs)]
                               ELSE [whist EXCEPT !.lost = @ \cup {w.job.rid}])
                            EXCEPT !.sockets = IF Closes(w) THEN @ \ {<<t, w.job.rid>>}
                                                             ELSE @]
              /\ metric' = RecordTotalProcessingTime(Retried(metric, s.sleeps))
              /\ cb' = AfterDialog(cb, now, w.out)
              /\ sd' = [sd EXCEPT !.active = @ + ExitDelta(w.err)]
    /\ wtask' = [wtask EXCEPT ![t] = IdleTask]
    /\ UNCHANGED <<jobs, req, nano, tasks, qlog, removed, retryVars, now, dialLog>>

\* checkStockfishHealth, called by the /healthz handler: a dial of its own.
WProbe ==
    /\ dialLog' = IF Phase(cb, now) = "open" THEN dialLog \cup {"health"} ELSE dialLog
    /\ UNCHANGED <<queueVars, retryVars, wtask, cb, now, whist, metric, sd>>

\* Time passes.
WTick ==
    /\ now < MaxTicks * TickStep
    /\ now' = now + TickStep
    /\ UNCHANGED <<queueVars, retryVars, wtask, cb, dialLog, whist, metric, sd>>

\* The engines of the Processor's runs: one that plays the dialog and one
\* that accepts the connection and says nothing.
HappyEngine ==
    [script |-> << <<"uciok">>, <<"readyok">>, <<"info", "depth", "1">>,
                   <<"bestmove", "e2e4", "ponder", "e7e5">> >>,
     ending |-> "silent"]
SilentEngine == [script |-> <<>>, ending |-> "silent"]
WorkerEngines == {HappyEngine, SilentEngine}

\* The waiting jobs: those with an odd number carry a correlation identifier,
\* the others none; the first carries a creation time, the second none and
\* the others one that does not parse.
WorkerJob(i) ==
    [id |-> JobID(i, 1600), rid |-> i, elo |-> 1600, maxTime |-> 1000,
     cid |-> IF i % 2 = 1 THEN Generate("api", i) ELSE "",
     createdAt |-> IF i = 1 THEN "rfc3339" ELSE IF i = 2 THEN "" ELSE "not a time"]

\* The breaker after the Processor has run connectToStockfish once per entry
\* of outs (TRUE: connected), one call after the other at time 0.
RECURSIVE Served(_, _)
Served(c, outs) ==
    IF outs = <<>> THEN c
    ELSE LET c1 == BeforeRequest(c, 0)
             c2 == IF Admission(CurrentState(c, 0)) = "nil"
                       THEN AfterRequest(c1, 0, c1.generation, Head(outs))
                       ELSE c1
         IN  Served(c2, Tail(outs))

\* The failed connects at the end of outs.
RECURSIVE Streak(_)
Streak(outs) ==
    IF outs = <<>> \/ outs[Len(outs)] THEN 0
    ELSE 1 + Streak(SubSeq(outs, 1, Len(outs) - 1))

\* The Processor's past: none, or WarmLen connects with any outcomes.
Warmups == {<<>>} \cup [1..WarmLen -> BOOLEAN]

\* The Processor has handled the jobs of a warm-up, the Front-End has claimed
\* their results, and MaxJobs further jobs are waiting.
InitWorker ==
    /\ jobs = [i \in 1..MaxJobs |-> WorkerJob(i)]
    /\ results = <<>>
    /\ req = [r \in Reqs |-> IdleReq]
    /\ nano = 0
    /\ tasks = {}
    /\ qlog = <<>>
    /\ removed = {}
    /\ NoRetry
    /\ wtask = [t \in Slots |-> IdleTask]
    /\ now = 0
    /\ dialLog = {}
    /\ \E outs \in Warmups :
          /\ cb = Served(NewBreaker(0), outs)
          /\ whist = [streak |-> Streak(outs), openedAt |-> 0, lost |-> {},
                       pushed |-> Len(outs), sockets |-> {}]
          /\ metric = [retryAttempts  |-> 0,
                        totalProcessed |-> Len(outs),
                        circuitState   |-> StateValue(Served(NewBreaker(0), outs).state),
                        circuitFailures |-> IF Served(NewBreaker(0), outs).state = "open"
                                               THEN 1 ELSE 0]
    /\ sd = NoShutdown

NextWorker ==
    \/ \E t \in Slots : WStart(t)
    \/ \E t \in Slots : WExecute(t)
    \/ \E t \in Slots, ok \in BOOLEAN : WDial(t, ok)
    \/ \E t \in Slots : WAfter(t)
    \/ \E t \in Slots, engine \in WorkerEngines,
          k \in 0..RedisResultRetryConfig.MaxAttempts : WFinish(t, engine, k)
    \/ WProbe
    \/ WTick

SpecWorker == InitWorker /\ [][NextWorker]_vars

(***************************************************************************)
(* The dialog end to end (specification SpecDialog): two job tasks hold      *)
(* connections to engines of every kind below, and the handlers of their     *)
(* requests wait for the results.                                            *)
(***************************************************************************)
\* the output of an engine that plays the whole dialog
DialogScripts ==
    {pre \o << <<"uciok">>, <<"readyok">> >> \o infos \o <<best>> :
        pre \in {<<>>, << <<"id", "name", "Stockfish">> >>},
        infos \in {<<>>, << <<"info", "depth", "1">> >>,
                   << <<"info", "depth", "1">>, <<>>, <<"info", "depth", "2">> >>},
        best \in {<<"bestmove", "e2e4", "ponder", "e7e5">>, <<"bestmove", "e2e4">>,
                  <<"bestmove", "e2e4", "ponder">>, <<"bestmove", "(none)">>,
                  <<"bestmove">>}}

\* the output of an engine that stops early, and of one that reports before
\* it is ready
OtherScripts ==
    {<<>>, << <<"uciok">> >>, << <<"uciok">>, <<"readyok">> >>,
     << <<"uciok">>, <<"readyok">>, <<"info", "depth", "1">> >>,
     << <<"uciok">>, <<"info", "string", "x">>, <<"readyok">>,
        <<"info", "depth", "1">>, <<"bestmove", "e2e4">> >>}

DialogEngines ==
    [script : DialogScripts \cup OtherScripts, ending : {"silent", "closed"}]

\* The job task of request r after connectToStockfish has returned a
\* connection to engine.
Connected(r, mt, engine) ==
    [pc |-> "finish", job |-> WaitJob(r, mt),
     cid |-> ResultCorrelationID(WaitJob(r, mt), 7), gen |-> 1,
     rs |-> <<>>, rej |-> "none", err |-> "", conn |-> TRUE, out |-> NotComputed,
     engine |-> engine]

InitDialog ==
    /\ jobs = <<>> /\ results = <<>> /\ nano = 1
    /\ tasks = {} /\ qlog = <<>> /\ removed = {}
    /\ req = [r \in Reqs |-> Waiting(WaitJob(r, 1000).id, 0)]
    /\ NoRetry
    /\ \E e1 \in DialogEngines, e2 \in WorkerEngines, mt \in {500, 1000} :
          wtask = [t \in Slots |-> IF t = "t1" THEN Connected("r1", mt, e1)
                                               ELSE Connected("r2", 1000, e2)]
    /\ cb = Served(NewBreaker(0), <<TRUE, TRUE>>)
    /\ now = 0
    /\ dialLog = {}
    /\ whist = [streak |-> 0, openedAt |-> 0, lost |-> {}, pushed |-> 0,
                sockets |-> {<<"t1", "r1">>, <<"t2", "r2">>}]
    /\ metric = [retryAttempts |-> 0, totalProcessed |-> 0,
                 circuitState |-> StateValue("closed"), circuitFailures |-> 0]
    /\ sd = [NoShutdown EXCEPT !.active = Cardinality(Slots)]

NextDialog ==
    \/ \E t \in Slots, k \in 0..RedisResultRetryConfig.MaxAttempts :
          /\ wtask[t].pc = "finish"
          /\ WFinish(t, wtask[t].engine, k)
    \/ \E r \in Reqs : Poll(r)
    \/ \E r \in Reqs : Claim(r)
    \/ \E r \in Reqs : Timeout(r)

SpecDialog == InitDialog /\ [][NextDialog]_vars

\* task t publishes its record in this step
PublishesRecord(t) ==
    wtask[t].pc = "finish" /\ wtask'[t].pc = "idle" /\ Len(results') = Len(results) + 1

IsInfo(line) == Len(line) >= 2 /\ line[1] = "info"

\* the engine answers with uciok at line u, readyok at line r > u, then only
\* info and empty lines, and a bestmove line at the end
PlaysDialog(script, u, r) ==
    /\ 1 <= u /\ u < r /\ r < Len(script)
    /\ "uciok" \in {script[u][i] : i \in 1..Len(script[u])}
    /\ "readyok" \in {script[r][i] : i \in 1..Len(script[r])}
    /\ \A j \in 1..(r - 1) : j # u => script[j] \notin {<<"uciok">>, <<"readyok">>}
    /\ \A j \in (r + 1)..(Len(script) - 1) : script[j] = <<>> \/ IsInfo(script[j])
    /\ script[Len(script)][1] = "bestmove"

\* the record published for such a dialog
HappyRecord(script, r, rec) ==
    LET last == script[Len(script)]
    IN  IF Len(last) = 1
        THEN rec.err # "" /\ rec.best = ""
        ELSE /\ rec.err = ""
             /\ rec.best = last[2]
             /\ rec.ponder = (IF Len(last) >= 4 /\ last[3] = "ponder" THEN last[4] ELSE "")
             /\ rec.info = SelectSeq(SubSeq(script, r + 1, Len(script) - 1), IsInfo)

\* the 200 of a request whose matched result carries no error
HappyResponse(r) ==
    req[r].match.err = ""
       => /\ req'[r].status = 200
          /\ req'[r].resp.bestmove = req[r].match.best
          /\ req'[r].resp.ponder = req[r].match.ponder

\* C23: when the engine answers the dialog with uciok, readyok, info lines
\* and a line "bestmove M ponder P", the JobResult carries bestmove M (the
\* first field after bestmove), ponder P (the field after a following
\* "ponder", empty when absent) and the collected info lines, and the
\* Front-End answers 200 with exactly that bestmove and ponder; a bestmove
\* line without a move gives an engine error, not a success.
C23_HappyPath ==
    /\ [][\A t \in Slots : PublishesRecord(t) =>
             \A u, r \in 1..Len(wtask[t].engine.script) :
                 PlaysDialog(wtask[t].engine.script, u, r) =>
                     HappyRecord(wtask[t].engine.script, r, results'[Len(results')])]_vars
    /\ [][\A r \in Reqs : Claims(r) => HappyResponse(r)]_vars

\* Witness of C23: a 200 with the best move and the ponder move of the
\* engine's bestmove line, and the two info lines of its dialog.
C23_Witness ==
    /\ req["r1"].pc = "done" /\ req["r1"].status = 200
    /\ req["r1"].resp.bestmove = "e2e4" /\ req["r1"].resp.ponder = "e7e5"
    /\ Len(req["r1"].resp.info) = 2

\* task t ends in this step
TaskEnds(t) == wtask[t].pc = "finish" /\ wtask'[t].pc = "idle"

\* the engine of task t emits nothing after the lines of shook
SilentAfter(t, shook) ==
    wtask[t].engine = [script |-> shook, ending |-> "silent"]

TimedOut(rec, detail, ms) ==
    rec.err = "engine computation error" /\ rec.detail = detail /\ rec.computeMs = ms

WorkerRids == 1..MaxJobs

Records(rid) == {i \in 1..Len(results) : results[i].rid = rid}
Queued(rid)  == \E i \in 1..Len(jobs) : jobs[i].rid = rid
Running(rid) == \E t \in Slots : wtask[t].pc # "idle" /\ wtask[t].job.rid = rid
Handled(rid) == ~Queued(rid) /\ ~Running(rid)

\* slot t ends its handleJob in this step
Finishing(t) == wtask[t].pc = "finish" /\ wtask'[t].pc = "idle"

\* the record handleJob builds on the path the task took; dialog errors and
\* best moves both follow a connection
PathMessages(w) ==
    CASE w.rej = "open"      -> {MsgOpen}
      [] w.rej = "half-open" -> {MsgHalfOpen}
      [] ~w.conn             -> {MsgConnect}
      [] OTHER               -> {"", MsgCompute}

SaysUnavailable(m) == m = MsgOpen

OneRecordPerJob ==
    \A rid \in WorkerRids :
        /\ Cardinality(Records(rid)) <= 1
        /\ (Queued(rid) \/ Running(rid)) => Records(rid) = {}
        /\ (Handled(rid) /\ rid \notin whist.lost) => Cardinality(Records(rid)) = 1

PublishesPathRecord ==
    \A t \in Slots : Finishing(t) =>
        \/ results' = results /\ wtask[t].job.rid \in whist'.lost
        \/ \E m \in PathMessages(wtask[t]) :
              /\ Len(results') = Len(results) + 1
              /\ SubSeq(results', 1, Len(results)) = results
              /\ LET rec == results'[Len(results')]
                 IN  /\ rec.id = wtask[t].job.id
                     /\ rec.err = m
                     /\ rec.rid = wtask[t].job.rid
                     /\ rec.cid = wtask[t].cid

RejectionSaysUnavailable ==
    \A t \in Slots : (Finishing(t) /\ wtask[t].rej # "none" /\ results' # results) =>
        SaysUnavailable(results'[Len(results')].err)

\* C3 (as amended): every job a Processor pops leaves exactly one record on
\* stockfish:results once handleJob has ended, on each of its paths, unless
\* every push of publishResult failed; never two.  The record carries the
\* message of the path: a rejection by an Open breaker says the engine is
\* temporarily unavailable, a rejection by a HalfOpen breaker says the test
\* connection failed.
C3_ExactlyOneRecord == []OneRecordPerJob /\ [][PublishesPathRecord]_vars

C3_Witness ==
    /\ Len(results) = 3
    /\ \E i \in 1..3 : results[i].err = MsgHalfOpen
    /\ \E i \in 1..3 : results[i].err = MsgConnect
    /\ \E i \in 1..3 : results[i].err = ""

\* C3 as stated: the record published after a rejection, by an Open or by a
\* HalfOpen breaker, says the engine is temporarily unavailable.
C3_AsStated == [][RejectionSaysUnavailable]_vars

\* C6: while the breaker is in the Open phase nobody in the Processor dials
\* the engine, neither a job task nor a health probe.
C6_NoDialWhileOpen == dialLog = {}

\* C7: the breaker leaves Closed for Open only when the connects that failed
\* in a row have reached the threshold.
C7_OpensAtThreshold ==
    [][(cb.state = "closed" /\ cb'.state = "open") => whist'.streak >= FailureThreshold]_vars

\* C14 (as claimed): the correlation identifier of every published result is
\* the one in the Job it was computed for, whatever that field holds.
C14_ResultCarriesJobID ==
    \A i \in 1..Len(results) : results[i].cid = WorkerJob(results[i].rid).cid

\* slot t makes a dial that is not the first of its connectToStockfish
RedialBy(t) ==
    wtask[t].pc = "dial" /\ wtask'[t] # wtask[t] /\ wtask[t].rs.attempt >= 1

\* slot t ends a handleJob all of whose pushes failed
LosesResult(t) ==
    Finishing(t) /\ wtask[t].job.rid \in whist'.lost

\* C12 (as claimed): every attempt after the first, of an engine connect or
\* of a result publish, increments retry_attempts_total: a redial adds one,
\* and a publish that used all its attempts has added one per attempt after
\* the first.
C12_RetriesCounted ==
    [][\A t \in Slots :
          /\ RedialBy(t) => metric'.retryAttempts = metric.retryAttempts + 1
          /\ LosesResult(t) =>
                metric'.retryAttempts = metric.retryAttempts
                                          + (RedisResultRetryConfig.MaxAttempts - 1)]_vars

\* C16 (as claimed): in every state the count of the
\* worker_total_processing_seconds histogram equals the number of result
\* records pushed onto the results lists, also when the pushes of a record
\* have failed after all their retries.
C16_CountEqualsPublished == metric.totalProcessed = whist.pushed

\* the breaker changes state / changes state into Open in this step
Transition == cb'.state # cb.state
Opens == Transition /\ cb'.state = "open"

\* the gauge is one of 0, 1, 2 and encodes the breaker's state
GaugeEncodesState ==
    /\ metric.circuitState \in {0, 1, 2}
    /\ metric.circuitState = (CASE cb.state = "closed"    -> 0
                               [] cb.state = "half-open" -> 1
                               [] cb.state = "open"      -> 2)

\* circuit_breaker_failures_total grows by one on a transition into Open
\* and is left alone by every other step
FailuresCountOpens ==
    metric'.circuitFailures = metric.circuitFailures + (IF Opens THEN 1 ELSE 0)

\* C17: the circuit_breaker_state gauge takes only the values 0, 1, 2 and,
\* after every transition, equals the encoding of the breaker's state
\* (Closed 0, HalfOpen 1, Open 2); circuit_breaker_failures_total is
\* incremented exactly once on each transition into Open and on no other.
C17_GaugeAndFailures == []GaugeEncodesState /\ [][FailuresCountOpens]_vars

\* a breaker that has opened a second time, after a failed probe
C17_Witness ==
    /\ metric.circuitFailures >= 2
    /\ cb.state = "open"
    /\ metric.circuitState = 2

\* the engine sockets task t has opened and not closed
SocketsOf(t) == {x \in whist.sockets : x[1] = t}

\* C29: every TCP connection a job task opens to the engine is closed by the
\* time the task ends, on every exit path; a connection is used by exactly
\* one job; and no connection obtained inside the retry and breaker wrapper
\* is left open when the wrapper reports failure.
C29_SocketsScoped ==
    /\ \A t \in Slots : wtask[t].pc = "idle" => SocketsOf(t) = {}
    /\ \A t \in Slots : wtask[t].pc = "finish" /\ wtask[t].err # "" => SocketsOf(t) = {}
    /\ \A t \in Slots : SocketsOf(t) # {} =>
            wtask[t].conn /\ SocketsOf(t) = {<<t, wtask[t].job.rid>>}
    /\ \A x, y \in whist.sockets : x[2] = y[2] => x = y

\* Witness of C29: a dialog on an open connection has ended in an engine
\* error, its task has ended, and no socket is open.
C29_Witness ==
    /\ whist.sockets = {}
    /\ \A t \in Slots : wtask[t].pc = "idle"
    /\ \E i \in 1..Len(results) : results[i].detail # <<>>

\* slot t ends a handleJob whose engine dialog failed after the connect
DialogFails(t) ==
    /\ Finishing(t)
    /\ wtask[t].conn
    /\ results' # results
    /\ results'[Len(results')].detail # <<>>

\* the step is the beforeRequest or the afterRequest of a connect
ConnectPhase ==
    \E t \in Slots : wtask[t].pc \in {"execute", "after"} /\ wtask'[t].pc # wtask[t].pc

\* C31: an engine dialog that fails after the TCP connection was established
\* (a timeout waiting for uciok, readyok or bestmove, a read error) leaves
\* the breaker's phase and counts as they were; the breaker changes only in
\* the connect phase of a job.
C31_DialogErrorsNotCounted ==
    [][/\ \A t \in Slots : DialogFails(t) => cb' = cb
       /\ cb' # cb => ConnectPhase]_vars

C31_Witness ==
    /\ cb.state = "closed"
    /\ cb.counts.ConsecutiveFailures = 0
    /\ cb.counts.TotalSuccesses >= 2
    /\ Cardinality({i \in 1..Len(results) : results[i].detail # <<>>}) >= 2

\* the jobs whose result was dropped stay dropped: no record, not back on
\* stockfish:jobs, no task running them
DroppedForGood ==
    \A rid \in whist.lost : Records(rid) = {} /\ ~Queued(rid) /\ ~Running(rid)

\* a handleJob all of whose pushes failed adds no record, puts nothing on
\* stockfish:jobs, dials nobody, and ends with the counter decremented
DropsAndEnds ==
    \A t \in Slots : LosesResult(t) =>
        /\ results' = results
        /\ jobs' = jobs
        /\ dialLog' = dialLog
        /\ wtask'[t] = IdleTask
        /\ sd'.active = sd.active - 1

\* C33: when every push of a JobResult fails, the result is dropped: no
\* record is added to stockfish:results, the job is neither put back on
\* stockfish:jobs nor run again, and the job task ends with the active-job
\* counter decremented.
C33_PublishFailureDrops == []DroppedForGood /\ [][DropsAndEnds]_vars

C33_Witness ==
    /\ Cardinality(whist.lost) >= 2
    /\ sd.active = 0
    /\ jobs = <<>>
    /\ \A t \in Slots : wtask[t].pc = "idle"
    /\ Len(results) = MaxJobs - Cardinality(whist.lost)

\* the phases the claim lists for the record of job: queue_wait for a job
\* that carries its creation time, and the four others
ListedPhases(job) ==
    (IF job.createdAt = "rfc3339" THEN {"queue_wait_ms"} ELSE {})
      \cup {"engine_connect_ms", "engine_compute_ms", "result_publish_ms", "total_ms"}

\* C34 (as claimed): the record pushed for a job that reached the engine
\* carries every listed timing phase at the moment it is published,
\* result_publish and total included.
C34_TimingsInRecord ==
    \A i \in 1..Len(results) :
        "engine_connect_ms" \in results[i].timings =>
            ListedPhases(WorkerJob(results[i].rid)) \subseteq results[i].timings

\* C39: every JobResult the Processor publishes has a non-empty bestmove or
\* a non-empty error and never both: with an error its bestmove, ponder and
\* info are empty, without one its bestmove is not.
C39_MoveOrError ==
    \A i \in 1..Len(results) :
        /\ (results[i].err # "") # (results[i].best # "")
        /\ results[i].err # "" =>
              results[i].best = "" /\ results[i].ponder = "" /\ results[i].info = <<>>
        /\ results[i].err = "" => results[i].best # ""

C39_Witness ==
    /\ \E i \in 1..Len(results) : results[i].err = "" /\ results[i].ponder # ""
    /\ \E i \in 1..Len(results) : results[i].err = MsgCompute
    /\ \E i \in 1..Len(results) : results[i].err = MsgConnect

\* the task whose call the breaker has admitted in its present generation
Admitted(t) == wtask[t].pc \in {"dial", "after"} /\ wtask[t].gen = cb.generation

\* C30 (as claimed): a half-open probe is one attempt: while the breaker is
\* HalfOpen the single admitted job dials the engine exactly once (it never
\* dials a second time), and that dial decides between Closed and Open.
C30_ProbeDialsOnce ==
    [][\A t \in Slots : cb.state = "half-open" /\ Admitted(t) => ~RedialBy(t)]_vars

\* slot t is admitted by beforeRequest in this step
AdmittedNow(t) == wtask[t].pc = "execute" /\ wtask'[t].pc = "dial"

\* slot t hands the outcome of its connectToStockfish to afterRequest
Reports(t) == wtask[t].pc = "after" /\ wtask'[t].pc = "finish"

\* the dials of t so far: some dial connected / all of them failed
SomeDialConnected(t) == \E i \in 1..Len(wtask[t].rs.hist) : wtask[t].rs.hist[i] = "nil"
AllDialsFailed(t) ==
    /\ Len(wtask[t].rs.hist) = StockfishRetryConfig.MaxAttempts
    /\ \A i \in 1..Len(wtask[t].rs.hist) : wtask[t].rs.hist[i] # "nil"

\* the breaker counts one success / one failure in this step (a count that
\* takes the breaker to another state starts the counts afresh)
CountsSuccess(c) ==
    \/ /\ cb'.state = c.state /\ cb'.generation = c.generation
       /\ cb'.counts.TotalSuccesses = c.counts.TotalSuccesses + 1
       /\ cb'.counts.TotalFailures = c.counts.TotalFailures
       /\ cb'.counts.ConsecutiveFailures = 0
    \/ c.state = "half-open" /\ cb'.state = "closed"
CountsFailure(c) ==
    \/ /\ cb'.state = c.state /\ cb'.generation = c.generation
       /\ cb'.counts.TotalFailures = c.counts.TotalFailures + 1
       /\ cb'.counts.TotalSuccesses = c.counts.TotalSuccesses
       /\ cb'.counts.ConsecutiveFailures = c.counts.ConsecutiveFailures + 1
    \/ c.state # "open" /\ cb'.state = "open"

OneRequest ==
    \A t \in Slots : AdmittedNow(t) =>
        cb'.counts.Requests = CurrentState(cb, now).counts.Requests + 1

OneOutcome(t) ==
    /\ SomeDialConnected(t) \/ AllDialsFailed(t)
    /\ SomeDialConnected(t) => CountsSuccess(CurrentState(cb, now))
    /\ AllDialsFailed(t) => CountsFailure(CurrentState(cb, now))

FailuresByJob ==
    /\ cb'.counts.ConsecutiveFailures <= cb.counts.ConsecutiveFailures + 1
    /\ cb'.counts.ConsecutiveFailures > cb.counts.ConsecutiveFailures =>
            \E t \in Slots : Reports(t) /\ AllDialsFailed(t)
    /\ cb'.counts.Requests = cb.counts.Requests \/ \E t \in Slots : wtask[t].pc \in {"execute", "after"}

\* C38 as stated: every admitted connectToStockfish call is counted as one
\* request with exactly one outcome.
C38_AsStated ==
    [][OneRequest /\ FailuresByJob /\ \A t \in Slots : Reports(t) => OneOutcome(t)]_vars

\* C38 (as amended): every admitted connectToStockfish call is counted as
\* one request and, unless the breaker has begun a new generation while the
\* call was running (then its outcome is discarded), with one outcome: a
\* success if one of its up to 3 dials connected, a failure only if all of
\* them failed.  The consecutive-failure count advances by at most one per
\* job, whatever the number of dials that failed.
C38_OneOutcomePerCall ==
    [][/\ OneRequest
       /\ FailuresByJob
       /\ \A t \in Slots : Reports(t) =>
             IF CurrentState(cb, now).generation = wtask[t].gen
                 THEN OneOutcome(t)
                 ELSE cb' = CurrentState(cb, now)]_vars

C38_Witness ==
    /\ cb.state = "closed"
    /\ cb.counts.Requests = cb.counts.TotalFailures + cb.counts.TotalSuccesses
    /\ cb.counts.ConsecutiveFailures = 1
    /\ cb.counts.TotalSuccesses >= 1
    /\ \E t \in Slots : wtask[t].pc = "finish" /\ wtask[t].rs # <<>>
                          /\ Len(wtask[t].rs.hist) = StockfishRetryConfig.MaxAttempts
                          /\ ~wtask[t].conn

ProbeSucceeds(t) == wtask[t].pc = "after" /\ wtask'[t].pc = "finish" /\ wtask[t].rs.ret = "nil"
ProbeFails(t)    == wtask[t].pc = "after" /\ wtask'[t].pc = "finish" /\ wtask[t].rs.ret # "nil"

PhaseTable ==
    /\ (cb.state = "closed" /\ cb'.state # "closed") => cb'.state = "open"
    /\ (cb.state = "open" /\ cb'.state # "open") =>
            /\ cb'.state = "half-open"
            /\ now - whist.openedAt >= CBTimeout
    /\ (cb.state = "half-open" /\ cb'.state = "closed") =>
            \E t \in Slots : ProbeSucceeds(t) /\ wtask[t].gen = cb.generation
    /\ (cb.state = "half-open" /\ cb'.state = "open") =>
            /\ \E t \in Slots : ProbeFails(t) /\ wtask[t].gen = cb.generation
            /\ cb'.expiry = now + CBTimeout
            /\ whist'.openedAt = now

OneProbe ==
    /\ cb.state = "half-open" =>
            /\ Cardinality({t \in Slots : Admitted(t)}) <= 1
            /\ cb.counts.Requests <= CBMaxRequests
    /\ \A t \in Slots : wtask[t].rej # "none" =>
            /\ wtask[t].pc = "finish"
            /\ wtask[t].rs = <<>>
            /\ ~wtask[t].conn

ShutdownJobs == 2
Outcomes == {"ok", "connect error", "engine error", "timeout"}

\* the signal handler: close(shutdownChan)
Signal ==
    /\ sd.main = "running" /\ ~sd.stop
    /\ sd' = [sd EXCEPT !.stop = TRUE]
    /\ UNCHANGED <<queueVars, retryVars, wtask, cb, now, dialLog, whist, metric>>

\* A select that takes its default case whatever the channel holds.
SelectCase_Default(stop) == "default"

\* select { case <-shutdownChan: ... default: ... }: the default case runs
\* only when the channel is not closed.
SelectCase(stop) == IF stop THEN "shutdown" ELSE "default"

\* processJobs at the head of its loop.
LoopEntry ==
    /\ sd.main = "running" /\ sd.loop = "select"
    /\ sd' = [sd EXCEPT !.loop = IF SelectCase(sd.stop) = "shutdown" THEN "drain"
                                                                      ELSE "blpop"]
    /\ UNCHANGED <<queueVars, retryVars, wtask, cb, now, dialLog, whist, metric>>

\* a payload on stockfish:jobs that is not the JSON of a Job
Garbage == [id |-> <<>>, rid |-> 0, raw |-> "not json"]

\* A json.Unmarshal that returns no error for any payload.
Decodes_Anything(payload) == TRUE

\* json.Unmarshal([]byte(res[1]), &job) returns no error
Decodes(payload) == "raw" \notin DOMAIN payload

\* rdb.BLPop returns: a job, for which go handleJob runs, or a payload that
\* does not decode, which is logged and left out, or redis.Nil after 5 s on
\* an empty list, or an error; then the loop head.
BLPopReturns(redisOk) ==
    /\ sd.main = "running" /\ sd.loop = "blpop"
    /\ IF redisOk /\ jobs # <<>>
       THEN /\ jobs' = LPopRest(jobs)
            /\ IF Decodes(LPopValue(jobs))
               THEN /\ tasks' = tasks \cup {[job |-> LPopValue(jobs), proc |-> "p1",
                                              pc |-> "spawned"]}
                    /\ sd' = [sd EXCEPT !.loop = "select"]
               ELSE /\ tasks' = tasks
                    /\ sd' = [sd EXCEPT !.loop = "select", !.dropped = @ + 1]
       ELSE /\ UNCHANGED <<jobs, tasks>>
            /\ sd' = [sd EXCEPT !.loop = "select"]
    /\ UNCHANGED <<results, req, nano, qlog, removed>>
    /\ UNCHANGED <<retryVars, wtask, cb, now, dialLog, whist, metric>>

\* handleJob, first statement: atomic.AddInt32(&activeJobsCount, 1)
JobEnters(t) ==
    /\ sd.main = "running"
    /\ t \in tasks /\ t.pc = "spawned"
    /\ tasks' = (tasks \ {t}) \cup {[t EXCEPT !.pc = "running"]}
    /\ sd' = [sd EXCEPT !.active = @ + 1]
    /\ UNCHANGED <<jobs, results, req, nano, qlog, removed>>
    /\ UNCHANGED <<retryVars, wtask, cb, now, dialLog, whist, metric>>

\* handleJob from after its entry to its return: the result is published
\* (or every push fails) and the deferred decrement runs.
JobReturns(t, outcome, pushOk) ==
    /\ sd.main = "running"
    /\ t \in tasks /\ t.pc = "running"
    /\ tasks' = tasks \ {t}
    /\ results' = IF pushOk
                    THEN RPush(results, [id |-> t.job.id, rid |-> t.job.rid,
                                         err |-> IF outcome = "ok" THEN "" ELSE outcome])
                    ELSE results
    /\ sd' = [sd EXCEPT !.active = @ + ExitDelta(outcome)]
    /\ UNCHANGED <<jobs, req, nano, qlog, removed>>
    /\ UNCHANGED <<retryVars, wtask, cb, now, dialLog, whist, metric>>

\* The drain loop reads the counter: zero closes doneChan and returns,
\* anything else goes to the inner select.
DrainCheck ==
    /\ sd.main = "running" /\ sd.loop = "drain"
    /\ sd' = IF sd.active = 0
                THEN [sd EXCEPT !.loop = "returned", !.done = @ + 1]
                ELSE [sd EXCEPT !.loop = "dwait"]
    /\ UNCHANGED <<queueVars, retryVars, wtask, cb, now, dialLog, whist, metric>>

\* case <-ticker.C
DrainTick ==
    /\ sd.main = "running" /\ sd.loop = "dwait" /\ sd.left > 0
    /\ sd' = [sd EXCEPT !.loop = "drain", !.left = @ - 1]
    /\ UNCHANGED <<queueVars, retryVars, wtask, cb, now, dialLog, whist, metric>>

\* A drain whose deadline never fires.
DeadlineReached_Never(left) == FALSE

\* shutdownCtx (context.WithTimeout, 30 s) is done
DeadlineReached(left) == left = 0

\* case <-shutdownCtx.Done(): the 30 s are over
DrainTimeout ==
    /\ sd.main = "running" /\ sd.loop = "dwait" /\ DeadlineReached(sd.left)
    /\ sd' = [sd EXCEPT !.loop = "returned", !.done = @ + 1, !.expired = TRUE]
    /\ UNCHANGED <<queueVars, retryVars, wtask, cb, now, dialLog, whist, metric>>

\* main after processJobs: <-doneChan, rdb.Close(), return; the process and
\* its goroutines end.
MainReturns ==
    /\ sd.main = "running" /\ sd.loop = "returned" /\ sd.done > 0
    /\ sd' = [sd EXCEPT !.main = "exited"]
    /\ UNCHANGED <<queueVars, retryVars, wtask, cb, now, dialLog, whist, metric>>

\* ShutdownJobs jobs are waiting, with or without a payload that does not
\* decode somewhere among them.
InitShutdown ==
    /\ LET waiting == [i \in 1..ShutdownJobs |-> WorkerJob(i)]
       IN  jobs \in {waiting}
                 \cup {SubSeq(waiting, 1, k) \o <<Garbage>>
                          \o SubSeq(waiting, k + 1, ShutdownJobs) : k \in 0..ShutdownJobs}
    /\ results = <<>>
    /\ req = [r \in Reqs |-> IdleReq]
    /\ nano = 0
    /\ tasks = {}
    /\ qlog = <<>>
    /\ removed = {}
    /\ NoRetry /\ NoWorker

NextShutdown ==
    \/ Signal
    \/ LoopEntry
    \/ \E redisOk \in BOOLEAN : BLPopReturns(redisOk)
    \/ \E t \in tasks : JobEnters(t)
    \/ \E t \in tasks, outcome \in Outcomes, pushOk \in BOOLEAN : JobReturns(t, outcome, pushOk)
    \/ DrainCheck
    \/ DrainTick
    \/ DrainTimeout
    \/ MainReturns

\* The main goroutine runs, BLPOP returns and the ticker ticks; a job task
\* may never finish, and the signal may never come.
SpecShutdown ==
    /\ InitShutdown /\ [][NextShutdown]_vars
    /\ WF_vars(LoopEntry)
    /\ WF_vars(\E redisOk \in BOOLEAN : BLPopReturns(redisOk))
    /\ WF_vars(DrainCheck) /\ WF_vars(DrainTick) /\ WF_vars(DrainTimeout)
    /\ WF_vars(MainReturns)

\* C25 (as claimed): when the signal arrives while popped jobs have not
\* finished then, unless the drain deadline expires, every such job has
\* completed and published before the Processor declares the drain complete
\* (closes doneChan), whatever the interleaving of the pop loop, the job
\* tasks and the signal.
C25_DrainCompletesJobs ==
    sd.done > 0 /\ ~sd.expired => tasks = {}

\* processJobs starts a blocking pop in this step
StartsPop == sd.loop # "blpop" /\ sd'.loop = "blpop"

\* processJobs passes its loop head in this step
PassesLoopHead == sd.loop = "select" /\ sd'.loop # "select"

\* C26: once shutdownChan is closed processJobs issues no new blocking pop:
\* at its next loop entry it sees the signal and goes to the drain, so no
\* job is taken by a pop started after the signal.
C26_NoPopAfterSignal ==
    /\ [][sd.stop => sd'.stop]_vars
    /\ [][StartsPop => ~sd.stop]_vars
    /\ [][sd.stop /\ PassesLoopHead => sd'.loop = "drain"]_vars
    /\ [][sd.stop /\ Len(jobs') < Len(jobs) => sd.loop = "blpop"]_vars

\* Witness of C26: the signal has been seen at the loop head and a job is
\* still waiting in the queue.
C26_Witness == sd.stop /\ sd.loop = "drain" /\ jobs # <<>>

\* doneChan is closed in this step
ClosesDone == sd'.done # sd.done

\* C27: after the signal the Processor terminates: the drain loop ends when
\* the active-job counter reads zero or when the 30 s deadline expires,
\* closes doneChan exactly once, and then main closes the queue client and
\* returns, even if some job task never finishes.
C27_Terminates ==
    /\ sd.stop ~> sd.main = "exited"
    /\ [](sd.done <= 1)
    /\ [](sd.main = "exited" => sd.done = 1)
    /\ [][ClosesDone => /\ sd.loop \in {"drain", "dwait"}
                        /\ sd.active = 0 \/ sd.left = 0
                        /\ sd'.loop = "returned"]_vars

\* Witness of C27: main has returned after the deadline, a job task still
\* running.
C27_Witness ==
    /\ sd.main = "exited" /\ sd.expired
    /\ \E t \in tasks : t.pc = "running"

\* the job tasks between handleJob's entry and its exit
Between == {t \in tasks : t.pc = "running"}

\* C28: activeJobsCount is incremented once when a job task starts and
\* decremented exactly once on every exit path of that task before it ends;
\* so it is never negative, always equals the number of job tasks between
\* entry and exit, and is back at zero when all tasks have ended.
C28_ActiveJobsCount ==
    /\ [](sd.active >= 0 /\ sd.active = Cardinality(Between))
    /\ [](tasks = {} => sd.active = 0)
    /\ [][\A t \in tasks :
             /\ t.pc = "spawned" /\ t \notin tasks' => sd'.active = sd.active + 1
             /\ t.pc = "running" /\ t \notin tasks' => sd'.active = sd.active - 1]_vars

\* Witness of C28: two tasks have run, one of them on the connect-error
\* path, and the counter is back at zero.
C28_Witness ==
    /\ sd.active = 0 /\ tasks = {} /\ jobs = <<>>
    /\ Len(results) = ShutdownJobs
    /\ \E i \in 1..Len(results) : results[i].err = "connect error"

(***************************************************************************)
(* The commands of the UCI dialog, write by write (specification SpecUCI):   *)
(* executeChessComputation of one job task on a connection.  The connection  *)
(* takes the first writesLeft writes; the write after them fails and so does *)
(* every later one (a write on a TCP connection fails when the connection is *)
(* broken, and it stays broken).                                             *)
(***************************************************************************)
\* what write sends: the command line, its number and its text argument
UciCmd(name, num, text) == [name |-> name, num |-> num, text |-> text]

\* strings.TrimSpace of a text given as its runs: " " is a run of white space
TrimSpace(s) ==
    LET inked == {i \in 1..Len(s) : s[i] # " "}
    IN  IF inked = {} THEN <<>>
        ELSE SubSeq(s, CHOOSE i \in inked : \A j \in inked : i <= j,
                       CHOOSE i \in inked : \A j \in inked : j <= i)

\* A dialog that limits the strength for every job.
SetsElo_Always(job) == TRUE

\* if job.Elo > 0
SetsElo(job) == job.elo > 0

\* The command each write of the dialog sends.
CommandAt(pc, job) ==
    CASE pc = "uci"        -> UciCmd("uci", 0, <<>>)
      [] pc = "limit"      -> UciCmd("setoption name UCI_LimitStrength value true", 0, <<>>)
      [] pc = "elo"        -> UciCmd("setoption name UCI_Elo value", job.elo, <<>>)
      [] pc = "isready"    -> UciCmd("isready", 0, <<>>)
      [] pc = "ucinewgame" -> UciCmd("ucinewgame", 0, <<>>)
      [] pc = "position"   -> IF TrimSpace(job.fen) = <<>>
                                  THEN UciCmd("position startpos", 0, <<>>)
                                  ELSE UciCmd("position fen", 0, job.fen)
      [] pc = "go"         -> UciCmd("go movetime",
                                     IF job.maxTime <= 0 THEN 1000 ELSE job.maxTime, <<>>)

WritePcs == {"uci", "limit", "elo", "isready", "ucinewgame", "position", "go"}

\* Where the dialog goes after a write: a failed write of uci, isready,
\* ucinewgame or go returns the error; a failed setoption is logged and a
\* failed position write is not looked at.
AfterWrite(pc, ok) ==
    CASE pc = "uci"        -> IF ok THEN "uciok" ELSE "done"
      [] pc = "limit"      -> "elo"
      [] pc = "elo"        -> "isready"
      [] pc = "isready"    -> IF ok THEN "readyok" ELSE "done"
      [] pc = "ucinewgame" -> IF ok THEN "position" ELSE "done"
      [] pc = "position"   -> "go"
      [] pc = "go"         -> IF ok THEN "bestmove" ELSE "done"

\* The error a failed write makes executeChessComputation return, if any.
WriteError(pc) ==
    CASE pc = "uci"        -> <<"uci command error: ", "write">>
      [] pc = "isready"    -> <<"isready command error: ", "write">>
      [] pc = "ucinewgame" -> <<"ucinewgame command error: ", "write">>
      [] pc = "go"         -> <<"go command error: ", "write">>
      [] OTHER             -> <<>>

\* One call of write.
UWrite(t) ==
    /\ wtask[t].pc \in WritePcs
    /\ LET d  == wtask[t]
           ok == d.writesLeft > 0
       IN  wtask' = [wtask EXCEPT ![t] =
              [d EXCEPT !.sent = IF ok THEN Append(@, CommandAt(d.pc, d.job)) ELSE @,
                        !.writesLeft = IF ok THEN @ - 1 ELSE 0,
                        !.failed = @ \/ ~ok,
                        !.err = IF ok THEN @ ELSE WriteError(d.pc),
                        !.pc = AfterWrite(d.pc, ok)]]
    /\ UNCHANGED <<queueVars, retryVars, cb, now, dialLog, whist, metric, sd>>

\* One call of readUntil: for "uciok" (3 s) or for "readyok" (2 s).
UReadUntil(t) ==
    /\ wtask[t].pc \in {"uciok", "readyok"}
    /\ LET d == wtask[t]
           r == ReadUntil(d.lines, d.ending, d.pc, IF d.pc = "uciok" THEN 3000 ELSE 2000)
       IN  wtask' = [wtask EXCEPT ![t] =
              IF r.err # <<>>
              THEN [d EXCEPT !.pc = "done", !.failed = TRUE,
                             !.err = (IF d.pc = "uciok" THEN <<"uci init error: ">>
                                                        ELSE <<"ready check error: ">>) \o r.err]
              ELSE [d EXCEPT !.lines = r.rest,
                             !.seen = @ \cup {d.pc},
                             !.pc = IF d.pc = "readyok" THEN "ucinewgame"
                                    ELSE IF SetsElo(d.job) THEN "limit" ELSE "isready"]]
    /\ UNCHANGED <<queueVars, retryVars, cb, now, dialLog, whist, metric, sd>>

\* The wait for bestmove and the return.
UBestmove(t) ==
    /\ wtask[t].pc = "bestmove"
    /\ LET d   == wtask[t]
           out == WaitBestmove(d.lines, d.ending, <<>>,
                               (IF d.job.maxTime <= 0 THEN 1000 ELSE d.job.maxTime) + 5000, 0)
       IN  wtask' = [wtask EXCEPT ![t] =
              [d EXCEPT !.pc = "done", !.err = out.err, !.failed = @ \/ out.err # <<>>,
                        !.best = out.best]]
    /\ UNCHANGED <<queueVars, retryVars, cb, now, dialLog, whist, metric, sd>>

\* executeChessComputation is entered on new connections.  The FEN of the
\* job is empty, white space only, or a position with or without white space
\* around it; the engine of the first task emits the dialog, a part of it,
\* or readyok too early, and its connection may break before any write.
InitUCI ==
    /\ jobs = <<>> /\ results = <<>> /\ nano = 0
    /\ tasks = {} /\ qlog = <<>> /\ removed = {}
    /\ req = [r \in Reqs |-> IdleReq]
    /\ NoRetry
    /\ \E job \in [elo : {0, 1600}, maxTime : {0, 500},
                    fen : {<<>>, <<" ">>, <<" ", " ">>, <<"8/8/8/8 w">>,
                           <<" ", "8/8/8/8 w", " ">>}],
          script \in {SubSeq(HappyEngine.script, 1, n) : n \in 0..Len(HappyEngine.script)}
                        \cup {<< <<"readyok">>, <<"uciok">> >>},
          ending \in {"silent", "closed"},
          writesLeft \in 0..Cardinality(WritePcs) :
          LET Dialog(lines, end, left) ==
                 [pc |-> "uci", job |-> job, lines |-> lines, ending |-> end,
                  writesLeft |-> left, sent |-> <<>>, seen |-> {}, failed |-> FALSE,
                  err |-> <<>>, best |-> ""]
          IN  wtask = [t \in Slots |->
                         IF t = "t1" THEN Dialog(script, ending, writesLeft)
                         ELSE Dialog(HappyEngine.script, "silent", Cardinality(WritePcs))]
    /\ cb = Served(NewBreaker(0), <<TRUE, TRUE>>)
    /\ now = 0
    /\ dialLog = {}
    /\ whist = [streak |-> 0, openedAt |-> 0, lost |-> {}, pushed |-> 0,
                sockets |-> {<<"t1", 1>>, <<"t2", 2>>}]
    /\ metric = [retryAttempts |-> 0, totalProcessed |-> 0,
                 circuitState |-> StateValue("closed"), circuitFailures |-> 0]
    /\ sd = NoShutdown

NextUCI ==
    \/ \E t \in Slots : UWrite(t)
    \/ \E t \in Slots : UReadUntil(t)
    \/ \E t \in Slots : UBestmove(t)

SpecUCI == InitUCI /\ [][NextUCI]_vars

\* the sequence the claim gives for a job
SequenceFor(job) ==
    <<UciCmd("uci", 0, <<>>)>>
      \o (IF job.elo > 0
             THEN <<UciCmd("setoption name UCI_LimitStrength value true", 0, <<>>),
                    UciCmd("setoption name UCI_Elo value", job.elo, <<>>)>>
             ELSE <<>>)
      \o <<UciCmd("isready", 0, <<>>), UciCmd("ucinewgame", 0, <<>>)>>
      \o <<IF job.fen \in {<<>>, <<" ">>, <<" ", " ">>}
              THEN UciCmd("position startpos", 0, <<>>)
              ELSE UciCmd("position fen", 0, job.fen)>>
      \o <<UciCmd("go movetime", IF job.maxTime <= 0 THEN 1000 ELSE job.maxTime, <<>>)>>

HasSent(d, names) == \E i \in 1..Len(d.sent) : d.sent[i].name \in names

InSequence(d) ==
    /\ IsPrefix(d.sent, SequenceFor(d.job))
    /\ (d.pc = "bestmove" \/ d.best # "") => d.sent = SequenceFor(d.job)
    /\ HasSent(d, {"setoption name UCI_LimitStrength value true",
                   "setoption name UCI_Elo value", "isready"}) => "uciok" \in d.seen
    /\ HasSent(d, {"ucinewgame", "position startpos", "position fen", "go movetime"}) =>
            "readyok" \in d.seen

\* C32: the commands written to the engine are, in this order: uci; after a
\* line with uciok was read, the two setoption commands iff Elo > 0; isready;
\* after a line with readyok was read, ucinewgame, one position command
\* (startpos for an empty or blank FEN, else the FEN as given) and go
\* movetime N (1000 for a non-positive think time).  What was sent is always
\* a prefix of that sequence and the whole of it once the wait for bestmove
\* begins; nothing is sent once a write or a readUntil has failed.
C32_CommandSequence ==
    /\ [](\A t \in Slots : InSequence(wtask[t]))
    /\ [][\A t \in Slots : wtask[t].failed => wtask'[t].sent = wtask[t].sent]_vars

C32_Witness ==
    /\ wtask["t1"].pc = "done"
    /\ wtask["t1"].best # ""
    /\ wtask["t1"].job.elo > 0
    /\ wtask["t1"].job.fen = <<" ", "8/8/8/8 w", " ">>
    /\ wtask["t1"].job.maxTime = 0
    /\ Len(wtask["t1"].sent) = Cardinality(WritePcs)

(***************************************************************************)
(* Claims about payloads that do not decode (specification SpecShutdown).    *)
(***************************************************************************)
\* processJobs takes a payload that does not decode off stockfish:jobs
PopsGarbage ==
    /\ sd.loop = "blpop" /\ jobs # <<>> /\ ~Decodes(Head(jobs))
    /\ jobs' = Tail(jobs)

\* C40: a record popped from stockfish:jobs that does not decode as a Job is
\* consumed and dropped: no job task is started for it, no JobResult is
\* published, the active-job counter stays as it is, and processJobs is back
\* at the head of its loop for the next pop.
C40_GarbageDropped ==
    /\ [](\A t \in tasks : Decodes(t.job))
    /\ [](\A i \in 1..Len(results) : results[i].rid # Garbage.rid)
    /\ [][PopsGarbage => /\ tasks' = tasks
                          /\ results' = results
                          /\ sd'.active = sd.active
                          /\ sd'.loop = "select"
                          /\ sd'.dropped = sd.dropped + 1]_vars

C40_Witness ==
    /\ sd.dropped = 1
    /\ ~sd.stop
    /\ jobs = <<>>
    /\ Len(results) = ShutdownJobs

====
